---- MODULE Spec2Model ----
(***************************************************************************)
(* Track management and motion extrapolation of package newcast.           *)
(*                                                                         *)
(* The Tracker (tracker.go) owns a slice of *Track; every Track is a heap  *)
(* object that callers may keep a pointer to (GetTracks hands pointers     *)
(* out).  The model keeps every Track ever allocated in `heap` and the     *)
(* Tracker's slice `tracks` as a sequence of heap addresses.               *)
(*                                                                         *)
(* Numbers: timestamps are whole seconds, positions are integers; every    *)
(* float computed from them (velocity, acceleration, fit coefficients) is  *)
(* an exact fraction <<num, den>> in lowest terms with den > 0.  Rounding  *)
(* of float32/float64 is not modelled; the tests "== 0" and "> 0" the code *)
(* makes are exact on these inputs.                                        *)
(***************************************************************************)
EXTENDS Integers, Sequences, FiniteSets, TLC

\* ------------------------------------------------------------------ bounds
\* NewTracker(maxFeatures): the most features the detector may return.
MaxFeatures == 2
\* The most successful AddImage calls on one Tracker.
MaxFrames == 4
\* The most successful AddImage calls when the arrays may be misaligned.
MaxRawFrames == 3

\* Timestamps (whole seconds) the caller may pass, in any order.
Times == {0, 1, 2}

\* Frame-to-frame displacements the optical-flow provider reports.
Shifts == { <<0, 0>>, <<1, 2>> }

\* The i-th corner the feature detector reports (distinct positions).
FeatureAt(i) == <<3 * i, i>>

\* ------------------------------------------------------- exact fractions
Abs(n) == IF n < 0 THEN -n ELSE n

RECURSIVE GCD(_, _)
GCD(a, b) == IF b = 0 THEN a ELSE GCD(b, a % b)

\* n/d with the common factor g > 0 taken out and the sign in the numerator.
Reduce(n, d, g) ==
    IF d < 0 THEN <<(0 - n) \div g, (0 - d) \div g>> ELSE <<n \div g, d \div g>>

\* n/d in lowest terms, d # 0.
Frac(n, d) == Reduce(n, d, GCD(Abs(n), Abs(d)))

Zero == <<0, 1>>
Whole(n) == <<n, 1>>
RAdd(p, q) == Frac(p[1] * q[2] + q[1] * p[2], p[2] * q[2])
RSub(p, q) == Frac(p[1] * q[2] - q[1] * p[2], p[2] * q[2])
RMul(p, q) == Frac(p[1] * q[1], p[2] * q[2])
\* p / q, q # 0
RDiv(p, q) == Frac(p[1] * q[2], p[2] * q[1])
RPos(p) == p[1] > 0

\* gocv.Point2f{} and Polynomial{}: Go's zero values.
ZeroVec == [X |-> Zero, Y |-> Zero]
ZeroPoly == [A |-> Zero, B |-> Zero, C |-> Zero]

\* --------------------------------------------------------------- curvefit
\* The body of the loop of FitQuadratic: the sums r = <<sumT, sumT2, sumT3,
\* sumT4, sumX, sumTX, sumT2X, sumY, sumTY, sumT2Y>> with the point (x, y)
\* at tt seconds added.
Accumulate(r, tt, x, y) ==
    <<r[1] + tt, r[2] + tt * tt, r[3] + tt * tt * tt, r[4] + tt * tt * tt * tt,
      r[5] + x, r[6] + tt * x, r[7] + tt * tt * x,
      r[8] + y, r[9] + tt * y, r[10] + tt * tt * y>>

\* The accumulation loop of FitQuadratic over points[1..i], t being the
\* seconds since t0.
RECURSIVE Sums(_, _, _)
Sums(points, t0, i) ==
    IF i = 0 THEN <<0, 0, 0, 0, 0, 0, 0, 0, 0, 0>>
    ELSE Accumulate(Sums(points, t0, i - 1),
                    points[i].Time - t0, points[i].Vec[1], points[i].Vec[2])

determinant(m) ==
    m[1][1] * (m[2][2] * m[3][3] - m[2][3] * m[3][2])
    - m[1][2] * (m[2][1] * m[3][3] - m[2][3] * m[3][1])
    + m[1][3] * (m[2][1] * m[3][2] - m[2][2] * m[3][1])

\* copyMatrix(m) with column c overwritten by the vector b (Cramer's rule).
ReplaceColumn(m, c, b) ==
    <<IF c = 1 THEN <<b[1], m[1][2], m[1][3]>>
      ELSE IF c = 2 THEN <<m[1][1], b[1], m[1][3]>> ELSE <<m[1][1], m[1][2], b[1]>>,
      IF c = 1 THEN <<b[2], m[2][2], m[2][3]>>
      ELSE IF c = 2 THEN <<m[2][1], b[2], m[2][3]>> ELSE <<m[2][1], m[2][2], b[2]>>,
      IF c = 1 THEN <<b[3], m[3][2], m[3][3]>>
      ELSE IF c = 2 THEN <<m[3][1], b[3], m[3][3]>> ELSE <<m[3][1], m[3][2], b[3]>> >>

\* Velocity that forgets the quadratic term.
VelocityAtStart(p, t) == p.B

\* Polynomial.Eval, Velocity, Acceleration at a fraction t.
Eval(p, t) == RAdd(RAdd(RMul(RMul(p.A, t), t), RMul(p.B, t)), p.C)
Velocity(p, t) == RAdd(RMul(RMul(Whole(2), p.A), t), p.B)
Acceleration(p) == RMul(Whole(2), p.A)

\* The polynomial solving A * <<c, b, a>> = b by Cramer's rule, detA # 0.
Cramer(A, b, detA) ==
    [C |-> Frac(determinant(ReplaceColumn(A, 1, b)), detA),
     B |-> Frac(determinant(ReplaceColumn(A, 2, b)), detA),
     A |-> Frac(determinant(ReplaceColumn(A, 3, b)), detA)]

\* FitQuadratic from the determinant on: the singular test and the solutions.
SolveNormal(A, bX, bY, detA) ==
    IF detA = 0
    THEN [err |-> "singular matrix", polyX |-> ZeroPoly, polyY |-> ZeroPoly]
    ELSE [err |-> "nil", polyX |-> Cramer(A, bX, detA), polyY |-> Cramer(A, bY, detA)]

\* The normal equations of n points with the sums sm.
NormalEquations(n, sm) ==
    [A |-> << <<n, sm[1], sm[2]>>,
              <<sm[1], sm[2], sm[3]>>,
              <<sm[2], sm[3], sm[4]>> >>,
     bX |-> <<sm[5], sm[6], sm[7]>>,
     bY |-> <<sm[8], sm[9], sm[10]>>]

FitSystem(eq) == SolveNormal(eq.A, eq.bX, eq.bY, determinant(eq.A))

\* FitQuadratic(points): [err, polyX, polyY]; err is "nil" on success.
FitQuadratic(points) ==
    IF Len(points) < 3
    THEN [err |-> "not enough points", polyX |-> ZeroPoly, polyY |-> ZeroPoly]
    ELSE FitSystem(NormalEquations(Len(points),
                                   Sums(points, points[1].Time, Len(points))))

\* ------------------------------------------------------- motion estimate
\* Velocity by finite differences between p0 and p1, or old when dt <= 0.
DifferenceVelocity(p0, p1, dt, old) ==
    IF dt > 0
    THEN [X |-> Frac(p1.Vec[1] - p0.Vec[1], dt),
          Y |-> Frac(p1.Vec[2] - p0.Vec[2], dt)]
    ELSE old

\* DifferenceAcceleration dividing by the sum of the two intervals.
DifferenceAccelerationBySum(track, pm, p0, dt, dtPrev) ==
    IF dtPrev > 0 /\ dt + dtPrev > 0
    THEN [track EXCEPT !.LatestAcceleration =
            [X |-> RDiv(RSub(track.LatestVelocity.X,
                             Frac(p0.Vec[1] - pm.Vec[1], dtPrev)),
                        Whole(dt + dtPrev)),
             Y |-> RDiv(RSub(track.LatestVelocity.Y,
                             Frac(p0.Vec[2] - pm.Vec[2], dtPrev)),
                        Whole(dt + dtPrev))]]
    ELSE track

\* The acceleration step of the fallback: pm, p0 are the third-from-last and
\* second-from-last points, dt the last interval.
DifferenceAcceleration(track, pm, p0, dt, dtPrev) ==
    IF dtPrev > 0 /\ dt + dtPrev > 0
    THEN [track EXCEPT !.LatestAcceleration =
            [X |-> RDiv(RSub(track.LatestVelocity.X,
                             Frac(p0.Vec[1] - pm.Vec[1], dtPrev)),
                        Frac(dt + dtPrev, 2)),
             Y |-> RDiv(RSub(track.LatestVelocity.Y,
                             Frac(p0.Vec[2] - pm.Vec[2], dtPrev)),
                        Frac(dt + dtPrev, 2))]]
    ELSE track

\* The fallback once the velocity is set, n = len(track.Points).
AccelerationStep(track, n) ==
    IF n < 3 THEN track
    ELSE DifferenceAcceleration(track, track.Points[n - 2], track.Points[n - 1],
            track.Points[n].Time - track.Points[n - 1].Time,
            track.Points[n - 1].Time - track.Points[n - 2].Time)

\* The finite-difference fallback of estimateMotion, n = len(track.Points) >= 2.
FiniteDifferences(track, n) ==
    AccelerationStep(
        [track EXCEPT !.LatestVelocity =
            DifferenceVelocity(track.Points[n - 1], track.Points[n],
                track.Points[n].Time - track.Points[n - 1].Time, @)],
        n)

\* UseFit that gives up when the fit failed.
UseFitOrKeep(track, n, fit, lastT) ==
    IF fit.err = "nil"
    THEN [track EXCEPT
            !.PolyX = fit.polyX,
            !.PolyY = fit.polyY,
            !.LatestVelocity = [X |-> Velocity(fit.polyX, lastT),
                                Y |-> Velocity(fit.polyY, lastT)],
            !.LatestAcceleration = [X |-> Acceleration(fit.polyX),
                                    Y |-> Acceleration(fit.polyY)]]
    ELSE track

\* estimateMotion with the result of FitQuadratic at hand.
UseFit(track, n, fit, lastT) ==
    IF fit.err = "nil"
    THEN [track EXCEPT
            !.PolyX = fit.polyX,
            !.PolyY = fit.polyY,
            !.LatestVelocity = [X |-> Velocity(fit.polyX, lastT),
                                Y |-> Velocity(fit.polyY, lastT)],
            !.LatestAcceleration = [X |-> Acceleration(fit.polyX),
                                    Y |-> Acceleration(fit.polyY)]]
    ELSE FiniteDifferences(track, n)

\* estimateMotion fitting from three points on.
estimateMotionFromThree(track, n) ==
    IF n < 2 THEN track
    ELSE IF n >= 3
    THEN UseFit(track, n, FitQuadratic(track.Points),
                Whole(track.Points[n].Time - track.Points[1].Time))
    ELSE FiniteDifferences(track, n)

\* Tracker.estimateMotion(track): the track after the call.
estimateMotionOf(track, n) ==
    IF n < 2 THEN track
    ELSE IF n >= 4
    THEN UseFit(track, n, FitQuadratic(track.Points),
                Whole(track.Points[n].Time - track.Points[1].Time))
    ELSE FiniteDifferences(track, n)

estimateMotion(track) == estimateMotionOf(track, Len(track.Points))

\* ------------------------------------------------------------ the Tracker
VARIABLES
    t,              \* the Tracker, with the Tracks its pointers refer to
    detected,       \* the detector's output in the last initializeTracks call
    nextPoints,     \* the provider's output in the last ingest
    status,         \* the provider's tracked flags in the last ingest
    callTimes,      \* the timestamps of the AddImage calls that returned nil
    err,            \* what the last AddImage call returned
    passes          \* the filter calls made on the tracks, with their results

vars == <<t, detected, nextPoints, status, callTimes, err, passes>>

\* The Tracker's fields.
prevImgEmpty == t.prevImgEmpty  \* t.prevImg.Empty(): no first image accepted yet
nextTrackID == t.nextTrackID
tracks == t.tracks              \* t.tracks, as addresses into heap
prevPoints == t.prevPoints      \* the provider's input for the next frame
\* Every Track allocated so far; callers may hold pointers to any of them.
heap == t.heap

\* NewTracker(maxFeatures)
NewTracker ==
    [prevImgEmpty |-> TRUE, nextTrackID |-> 0, tracks |-> <<>>,
     heap |-> <<>>, prevPoints |-> <<>>]

Range(s) == {s[i] : i \in DOMAIN s}
Last(s) == s[Len(s)]

\* Point with its Time left at the zero value.
PointNoTime(ts, vec) == [Time |-> 0, Vec |-> vec]

Point(ts, vec) == [Time |-> ts, Vec |-> vec]

\* NewTrack numbering from 1.
NewTrackOffByOne(id, ts, pos) ==
    [ID |-> id + 1, Points |-> <<[Time |-> ts, Vec |-> pos]>>,
     LatestVelocity |-> ZeroVec, LatestAcceleration |-> ZeroVec,
     Lost |-> FALSE, PolyX |-> ZeroPoly, PolyY |-> ZeroPoly]

\* &Track{ID: id, Points: []Point{{timestamp, pos}}, Lost: false}
NewTrack(id, ts, pos) ==
    [ID |-> id, Points |-> <<Point(ts, pos)>>,
     LatestVelocity |-> ZeroVec, LatestAcceleration |-> ZeroVec,
     Lost |-> FALSE, PolyX |-> ZeroPoly, PolyY |-> ZeroPoly]

\* createTrack without "t.nextTrackID++".
createTrackSameID(tr, ts, pos) ==
    [tr EXCEPT
        !.heap = Append(@, [ID |-> tr.nextTrackID,
                            Points |-> <<[Time |-> ts, Vec |-> pos]>>,
                            LatestVelocity |-> ZeroVec,
                            LatestAcceleration |-> ZeroVec,
                            Lost |-> FALSE,
                            PolyX |-> ZeroPoly, PolyY |-> ZeroPoly]),
        !.tracks = Append(@, Len(tr.heap) + 1)]

\* One iteration of the loop of initializeTracks: a Track for the feature at
\* pos, appended to t.tracks, and nextTrackID incremented.
createTrack(tr, ts, pos) ==
    [tr EXCEPT
        !.heap = Append(@, NewTrack(tr.nextTrackID, ts, pos)),
        !.tracks = Append(@, Len(tr.heap) + 1),
        !.nextTrackID = @ + 1]

\* The loop of initializeTracks over points[1..i].
RECURSIVE createTracks(_, _, _, _)
createTracks(tr, points, ts, i) ==
    IF i = 0 THEN tr
    ELSE createTrack(createTracks(tr, points, ts, i - 1), ts, points[i])

\* initializeTracks keeping the image before it looks at the features.
initializeTracksEager(tr, points, ts) ==
    IF Len(points) = 0
    THEN [t |-> [tr EXCEPT !.prevImgEmpty = FALSE],
          err |-> "no features found in the first image"]
    ELSE [t |-> [createTracks(tr, points, ts, Len(points)) EXCEPT
                    !.prevImgEmpty = FALSE, !.prevPoints = points],
          err |-> "nil"]

\* Tracker.initializeTracks(img, timestamp), points being what
\* GoodFeaturesToTrack found in img: the Tracker afterwards, and the error.
initializeTracks(tr, points, ts) ==
    IF Len(points) = 0
    THEN [t |-> tr, err |-> "no features found in the first image"]
    ELSE [t |-> [createTracks(tr, points, ts, Len(points)) EXCEPT
                    !.prevImgEmpty = FALSE, !.prevPoints = points],
          err |-> "nil"]

\* trackStep that neither skips lost tracks nor drops them from t.tracks.
trackStepKeepLost(acc, a, tracked, newPoint) ==
    IF tracked
    THEN [heap |-> [acc.heap EXCEPT ![a].Points = Append(@, newPoint)],
          surviving |-> Append(acc.surviving, a)]
    ELSE [heap |-> [acc.heap EXCEPT ![a].Lost = TRUE],
          surviving |-> Append(acc.surviving, a)]

\* trackStep that marks a track lost and still appends it to survivingTracks.
trackStepRetain(acc, a, tracked, newPoint) ==
    IF acc.heap[a].Lost THEN [acc EXCEPT !.surviving = Append(@, a)]
    ELSE IF tracked
    THEN [heap |-> [acc.heap EXCEPT ![a].Points = Append(@, newPoint)],
          surviving |-> Append(acc.surviving, a)]
    ELSE [heap |-> [acc.heap EXCEPT ![a].Lost = TRUE],
          surviving |-> Append(acc.surviving, a)]

\* trackStep that puts each survivor at the front of survivingTracks.
trackStepReversed(acc, a, tracked, newPoint) ==
    IF acc.heap[a].Lost THEN acc
    ELSE IF tracked
    THEN [heap |-> [acc.heap EXCEPT ![a].Points = Append(@, newPoint)],
          surviving |-> <<a>> \o acc.surviving]
    ELSE [heap |-> [acc.heap EXCEPT ![a].Lost = TRUE],
          surviving |-> acc.surviving]

\* trackStep that keeps a track the provider did not find, without a point.
trackStepHold(acc, a, tracked, newPoint) ==
    IF acc.heap[a].Lost THEN acc
    ELSE IF tracked
    THEN [heap |-> [acc.heap EXCEPT ![a] =
                      estimateMotion([@ EXCEPT !.Points = Append(@, newPoint)])],
          surviving |-> Append(acc.surviving, a)]
    ELSE [heap |-> acc.heap, surviving |-> Append(acc.surviving, a)]

\* One iteration of the loop of updateTracks, for the track at address a:
\* acc holds the heap and survivingTracks so far.
trackStep(acc, a, tracked, newPoint) ==
    IF acc.heap[a].Lost THEN acc
    ELSE IF tracked
    THEN [heap |-> [acc.heap EXCEPT ![a] =
                      estimateMotion([@ EXCEPT !.Points = Append(@, newPoint)])],
          surviving |-> Append(acc.surviving, a)]
    ELSE [heap |-> [acc.heap EXCEPT ![a].Lost = TRUE],
          surviving |-> acc.surviving]

\* The row of nextPoints the loop reads for the track at row i: row i.
\* (RowOfSurvivor reads the row of the survivor count instead.)
RowOfSurvivor(acc, i) == Len(acc.surviving) + 1

RowOfTrack(acc, i) == i

\* trackStep for row i of t.tracks, with the rows of status and nextPoints
\* the code reads for it.
stepAt(acc, tr, np, st, ts, i) ==
    trackStep(acc, tr.tracks[i], st[i] = 1, Point(ts, np[RowOfTrack(acc, i)]))

\* The loop of updateTracks over t.tracks[1..i]: the heap and survivingTracks.
RECURSIVE updateLoop(_, _, _, _, _)
updateLoop(tr, np, st, ts, i) ==
    IF i = 0 THEN [heap |-> tr.heap, surviving |-> <<>>]
    ELSE stepAt(updateLoop(tr, np, st, ts, i - 1), tr, np, st, ts, i)

\* "t.tracks = survivingTracks"
keepSurvivors(tr, done) ==
    [tr EXCEPT !.heap = done.heap, !.tracks = done.surviving]

\* Tracker.updateTracks(nextPoints, status, timestamp).  np and st are the
\* two arrays as the loop reads them at rows 1..len(t.tracks).
updateTracks(tr, np, st, ts) ==
    keepSurvivors(tr, updateLoop(tr, np, st, ts, Len(tr.tracks)))

\* updatePrevPoints taking each track's first point.
updatePrevPointsFirst(tr) ==
    [tr EXCEPT !.prevPoints =
        [i \in 1 .. Len(tr.tracks) |-> tr.heap[tr.tracks[i]].Points[1].Vec]]

\* Tracker.updatePrevPoints(): the last point of every track of t.tracks.
updatePrevPoints(tr) ==
    [tr EXCEPT !.prevPoints =
        [i \in 1 .. Len(tr.tracks) |-> Last(tr.heap[tr.tracks[i]].Points).Vec]]

\* Tracker.GetTracks(): the tracks of t.tracks that are not lost, in order.
GetTracks ==
    SelectSeq(tracks, LAMBDA a : ~heap[a].Lost)

\* ----------------------------------------------------------- extrapolation
\* avgDt of VisualizeExtrapolatedTracks: totalDuration / (len(Points) - 1),
\* for a track of two points or more.
avgDt(track) ==
    Frac(Last(track.Points).Time - track.Points[1].Time, Len(track.Points) - 1)

\* futureT for the j-th future point: lastT + j * avgDt.
futureT(track, j) ==
    RAdd(Whole(Last(track.Points).Time - track.Points[1].Time),
         RMul(Whole(j), avgDt(track)))

\* The largest numFuturePoints asked for.
MaxFuturePoints == 2

\* The future positions (futureX, futureY) that VisualizeExtrapolatedTracks
\* computes for one track, in the order of its loop; none when the track is
\* skipped or the "has been fitted" test fails.
Extrapolate(track, numFuturePoints) ==
    IF Len(track.Points) < 2 THEN <<>>
    ELSE IF numFuturePoints > 0 /\ track.PolyX.A # Zero
    THEN [j \in 1 .. numFuturePoints |->
            <<Eval(track.PolyX, futureT(track, j)),
              Eval(track.PolyY, futureT(track, j))>>]
    ELSE <<>>

\* ------------------------------------------------------------ the callers
\* What GoodFeaturesToTrack may return: 0..MaxFeatures distinct corners.
Detections == {[i \in 1 .. n |-> FeatureAt(i)] : n \in 0 .. MaxFeatures}

\* What CalcOpticalFlowPyrLK may return for the points pp: every point moved
\* by the frame's displacement, and one tracked flag per point.
Flow(pp, shift) ==
    [i \in 1 .. Len(pp) |-> <<pp[i][1] + shift[1], pp[i][2] + shift[2]>>]
Flags(n) == [1 .. n -> {0, 1}]

alive == err # "crash" /\ Len(callTimes) < MaxFrames

Init ==
    /\ t = NewTracker
    /\ detected = <<>>
    /\ nextPoints = <<>>
    /\ status = <<>>
    /\ callTimes = <<>>
    /\ err = "none"
    /\ passes = <<>>

\* AddImage with an image that is empty.
AddEmptyImage ==
    /\ alive
    /\ err' = "input image is empty"
    /\ UNCHANGED <<t, detected, nextPoints, status, callTimes, passes>>

\* AddImage returning what initializeTracks returned (r).
ReturnInitialized(r, ts) ==
    /\ t' = r.t
    /\ err' = r.err
    /\ callTimes' = IF r.err = "nil" THEN Append(callTimes, ts) ELSE callTimes

\* AddImage with the first image: initializeTracks.
AddFirstImage ==
    /\ alive
    /\ prevImgEmpty
    /\ \E ts \in Times, points \in Detections :
         /\ ReturnInitialized(initializeTracks(t, points, ts), ts)
         /\ detected' = points
    /\ UNCHANGED <<nextPoints, status, passes>>

\* Ingest that treats a Tracker without tracks as an error.
IngestRejectEmpty(np, st, ts) ==
    IF Len(tracks) = 0
    THEN /\ err' = "no tracks to update"
         /\ UNCHANGED <<t, callTimes>>
    ELSE /\ t' = updatePrevPoints(updateTracks(t, np, st, ts))
         /\ callTimes' = Append(callTimes, ts)
         /\ err' = "nil"

\* Ingest that detects features anew once no track is left.
IngestReseed(np, st, ts) ==
    /\ t' = IF Len(tracks) = 0
            THEN initializeTracks(t, <<FeatureAt(1)>>, ts).t
            ELSE updatePrevPoints(updateTracks(t, np, st, ts))
    /\ callTimes' = Append(callTimes, ts)
    /\ err' = "nil"

\* AddImage past the optical flow: updateTracks and updatePrevPoints on the
\* provider's arrays np, st.
Ingest(np, st, ts) ==
    /\ t' = updatePrevPoints(updateTracks(t, np, st, ts))
    /\ callTimes' = Append(callTimes, ts)
    /\ err' = "nil"

\* AddImage with a later image: optical flow from prevPoints, then Ingest.
AddNextImage ==
    /\ alive
    /\ ~prevImgEmpty
    /\ \E ts \in Times, shift \in Shifts, st \in Flags(Len(prevPoints)) :
         /\ Ingest(Flow(prevPoints, shift), st, ts)
         /\ nextPoints' = Flow(prevPoints, shift)
         /\ status' = st
    /\ UNCHANGED <<detected, passes>>

Next == AddEmptyImage \/ AddFirstImage \/ AddNextImage

Spec == Init /\ [][Next]_vars

\* ------------------------------------------- updateTracks on short arrays
\* What an unchecked Mat read past the last row may return.
StrayPoints == {<<0, 0>>, <<7, 7>>}

\* The rows 1..n of an array of m rows as the loop of updateTracks reads
\* them: GetUCharAt / GetVecfAt check no bounds, so a row past the end is
\* whatever memory holds there (stray).
RowsRead(array, stray, n) ==
    [i \in 1 .. n |-> IF i <= Len(array) THEN array[i] ELSE stray[i]]

\* The provider's nextPoints when it returns m rows for the points pp.
FlowOfLength(pp, shift, m) ==
    [i \in 1 .. m |->
        IF i <= Len(pp) THEN <<pp[i][1] + shift[1], pp[i][2] + shift[2]>>
        ELSE FeatureAt(i)]

\* AddImage with a later image whose correspondence arrays do not have one
\* row per track of t.tracks.  A read past the end may also fault, which
\* ends the process.
AddNextImageMisaligned ==
    /\ alive
    /\ ~prevImgEmpty
    /\ \E ts \in Times, shift \in Shifts, m \in 0 .. MaxFeatures :
         /\ m # Len(tracks)
         /\ \E st \in Flags(m),
               strayFlags \in [m + 1 .. Len(tracks) -> {0, 1}],
               strayPoints \in [m + 1 .. Len(tracks) -> StrayPoints] :
              /\ nextPoints' = FlowOfLength(prevPoints, shift, m)
              /\ status' = st
              /\ \/ Ingest(RowsRead(FlowOfLength(prevPoints, shift, m),
                                    strayPoints, Len(tracks)),
                           RowsRead(st, strayFlags, Len(tracks)), ts)
                 \/ /\ m < Len(tracks)
                    /\ err' = "crash"
                    /\ UNCHANGED <<t, callTimes>>
    /\ UNCHANGED <<detected, passes>>

RawBound == Len(callTimes) < MaxRawFrames

NextRaw ==
    \/ RawBound /\ AddEmptyImage
    \/ RawBound /\ AddFirstImage
    \/ RawBound /\ AddNextImage
    \/ RawBound /\ AddNextImageMisaligned

\* The Tracker driven through AddImage by a provider that keeps its contract.
\* (Spec, above.)  SpecRaw also hands updateTracks arrays of any length.
SpecRaw == Init /\ [][NextRaw]_vars

\* ------------------------------------------------------- float64, float32
\* The fractions above are what the floats compute as long as no operation
\* rounds.  With timestamps many seconds apart the powers of t exceed 53
\* bits and every operation rounds to nearest, ties to even.  A float is
\* [neg, mag, exp] for (-1)^neg * mag * 2^exp, mag being a magnitude held as
\* a little-endian sequence of limbs without leading zero limbs, and odd;
\* zero is mag = <<>> with exp = 0 (the sign of zero, which no comparison
\* sees, is dropped).  Exponents stay far inside the range of either format
\* on the inputs used here.
Limb == 32768
LimbBits == 15
MantissaBits == 53
MantissaBits32 == 24

RECURSIVE Trim(_)
Trim(x) ==
    IF x = <<>> THEN x
    ELSE IF x[Len(x)] = 0 THEN Trim(SubSeq(x, 1, Len(x) - 1)) ELSE x

RECURSIVE NatOf(_)
NatOf(n) == IF n = 0 THEN <<>> ELSE <<n % Limb>> \o NatOf(n \div Limb)

LimbAt(x, i) == IF i <= Len(x) THEN x[i] ELSE 0

RECURSIVE AddFrom(_, _, _, _)
AddFrom(x, y, i, c) ==
    IF i > Len(x) /\ i > Len(y) THEN (IF c = 0 THEN <<>> ELSE <<c>>)
    ELSE <<(LimbAt(x, i) + LimbAt(y, i) + c) % Limb>>
         \o AddFrom(x, y, i + 1, (LimbAt(x, i) + LimbAt(y, i) + c) \div Limb)

NatAdd(x, y) == Trim(AddFrom(x, y, 1, 0))

\* x - y for x >= y, b being the borrow into limb i.
RECURSIVE SubFrom(_, _, _, _)
SubFrom(x, y, i, b) ==
    IF i > Len(x) THEN <<>>
    ELSE <<(x[i] - LimbAt(y, i) - b + Limb) % Limb>>
         \o SubFrom(x, y, i + 1, IF x[i] - LimbAt(y, i) - b < 0 THEN 1 ELSE 0)

NatSub(x, y) == Trim(SubFrom(x, y, 1, 0))

RECURSIVE CmpFrom(_, _, _)
CmpFrom(x, y, i) ==
    IF i = 0 THEN 0
    ELSE IF x[i] # y[i] THEN (IF x[i] < y[i] THEN 0 - 1 ELSE 1)
    ELSE CmpFrom(x, y, i - 1)

\* -1, 0 or 1 as x is below, equal to or above y.
NatCmp(x, y) ==
    IF Len(x) # Len(y) THEN (IF Len(x) < Len(y) THEN 0 - 1 ELSE 1)
    ELSE CmpFrom(x, y, Len(x))

RECURSIVE MulLimbFrom(_, _, _, _)
MulLimbFrom(x, d, i, c) ==
    IF i > Len(x) THEN (IF c = 0 THEN <<>> ELSE <<c>>)
    ELSE <<(x[i] * d + c) % Limb>>
         \o MulLimbFrom(x, d, i + 1, (x[i] * d + c) \div Limb)

RECURSIVE MulFrom(_, _, _)
MulFrom(x, y, i) ==
    IF i > Len(y) THEN <<>>
    ELSE AddFrom(MulLimbFrom(x, y[i], 1, 0), <<0>> \o MulFrom(x, y, i + 1), 1, 0)

NatMul(x, y) == Trim(MulFrom(x, y, 1))

RECURSIVE Bits(_)
Bits(n) == IF n = 0 THEN 0 ELSE 1 + Bits(n \div 2)

\* The number of significant bits of x.
BitLen(x) == IF x = <<>> THEN 0 ELSE LimbBits * (Len(x) - 1) + Bits(x[Len(x)])

\* Bit i of x, bit 0 being the lowest.
BitAt(x, i) == (LimbAt(x, (i \div LimbBits) + 1) \div (2 ^ (i % LimbBits))) % 2

\* x with its s lowest bits cleared.
ClearBelow(x, s) ==
    [i \in 1 .. Len(x) |->
        IF i < (s \div LimbBits) + 1 THEN 0
        ELSE IF i = (s \div LimbBits) + 1 THEN x[i] - (x[i] % (2 ^ (s % LimbBits)))
        ELSE x[i]]

PowerOfTwo(s) ==
    [i \in 1 .. (s \div LimbBits) + 1 |->
        IF i = (s \div LimbBits) + 1 THEN 2 ^ (s % LimbBits) ELSE 0]

\* x rounded to a multiple of 2^s, s > 0: to nearest, ties to even.
RoundAt(x, s) ==
    IF /\ BitAt(x, s - 1) = 1
       /\ \/ BitAt(x, s) = 1
          \/ \E k \in 0 .. s - 2 : BitAt(x, k) = 1
    THEN NatAdd(ClearBelow(x, s), PowerOfTwo(s))
    ELSE Trim(ClearBelow(x, s))

\* x shifted right by j < LimbBits bits, and left by d bits.
ShiftRight(x, j) ==
    Trim([i \in 1 .. Len(x) |->
            (x[i] \div (2 ^ j)) + (LimbAt(x, i + 1) % (2 ^ j)) * (2 ^ (LimbBits - j))])
ShiftLeft(x, d) == NatMul(x, PowerOfTwo(d))

\* The number of zero bits at the low end of n > 0.
RECURSIVE TrailingZeros(_)
TrailingZeros(n) == IF n % 2 = 1 THEN 0 ELSE 1 + TrailingZeros(n \div 2)

RECURSIVE DropZeroLimbs(_)
DropZeroLimbs(f) ==
    IF f.mag = <<>> THEN [neg |-> FALSE, mag |-> <<>>, exp |-> 0]
    ELSE IF f.mag[1] = 0
    THEN DropZeroLimbs([f EXCEPT !.mag = Tail(@), !.exp = @ + LimbBits])
    ELSE f

OddMantissa(f) ==
    IF f.mag = <<>> THEN f
    ELSE [f EXCEPT !.mag = ShiftRight(@, TrailingZeros(f.mag[1])),
                   !.exp = @ + TrailingZeros(f.mag[1])]

\* The one representation of the value of f.
Canonical(f) == OddMantissa(DropZeroLimbs(f))

\* f rounded to p significant bits.
Rounded(f, p) ==
    Canonical([f EXCEPT !.mag =
        IF BitLen(@) <= p THEN @ ELSE RoundAt(@, BitLen(@) - p)])

\* float64(n) for an int n.
Float64(n) == Canonical([neg |-> n < 0, mag |-> NatOf(Abs(n)), exp |-> 0])

\* float32(f) for a float64 f.
Float32(f) == Rounded(f, MantissaBits32)

IsZero(f) == f.mag = <<>>
Positive(f) == f.mag # <<>> /\ ~f.neg
Negated(f) == IF f.mag = <<>> THEN f ELSE [f EXCEPT !.neg = ~@]

\* The sum of two magnitudes with signs, times 2^e, unrounded.
SignedSum(na, ma, nb, mb, e) ==
    IF na = nb THEN [neg |-> na, mag |-> NatAdd(ma, mb), exp |-> e]
    ELSE IF NatCmp(ma, mb) >= 0
    THEN [neg |-> na, mag |-> NatSub(ma, mb), exp |-> e]
    ELSE [neg |-> nb, mag |-> NatSub(mb, ma), exp |-> e]

SumAt(a, b, e) ==
    SignedSum(a.neg, ShiftLeft(a.mag, a.exp - e),
              b.neg, ShiftLeft(b.mag, b.exp - e), e)

\* a + b and a * b as real numbers.
ExactSum(a, b) == Canonical(SumAt(a, b, IF a.exp < b.exp THEN a.exp ELSE b.exp))
ExactProduct(a, b) ==
    [neg |-> a.neg # b.neg, mag |-> NatMul(a.mag, b.mag), exp |-> a.exp + b.exp]

\* The largest digit g < Limb with g * d <= r, for r < Limb * d, found bit
\* by bit from the top.
RECURSIVE DigitFrom(_, _, _, _)
DigitFrom(r, d, bit, acc) ==
    IF bit < 0 THEN acc
    ELSE IF NatCmp(Trim(MulLimbFrom(d, acc + 2 ^ bit, 1, 0)), r) <= 0
    THEN DigitFrom(r, d, bit - 1, acc + 2 ^ bit)
    ELSE DigitFrom(r, d, bit - 1, acc)

\* One step of long division: the next digit g of the quotient.
WithDigit(qr, d, g) ==
    <<Trim(<<g>> \o qr[1]), NatSub(qr[2], Trim(MulLimbFrom(d, g, 1, 0)))>>
DivStep(qr, d) == WithDigit(qr, d, DigitFrom(qr[2], d, LimbBits - 1, 0))

\* <<quotient, remainder>> of the magnitudes n and d > 0.
RECURSIVE DivMod(_, _)
DivMod(n, d) ==
    IF NatCmp(n, d) < 0 THEN <<<<>>, n>>
    ELSE DivStep(DivMod(n, <<0>> \o d), d)

\* The quotient qr[1] carrying one more bit that says whether the remainder
\* qr[2] is non-zero, which is all that rounding needs of it.
StickyQuotient(neg, qr, e) ==
    [neg |-> neg,
     mag |-> NatAdd(NatAdd(qr[1], qr[1]), IF qr[2] = <<>> THEN <<>> ELSE <<1>>),
     exp |-> e - 1]

\* a / b for b # 0 with the dividend shifted left by k bits, k large enough
\* for the quotient to have two bits more than the p it is rounded to.
QuotientAt(a, b, k, p) ==
    Rounded(StickyQuotient(a.neg # b.neg, DivMod(ShiftLeft(a.mag, k), b.mag),
                           a.exp - b.exp - k), p)

\* a + b, a - b, a * b, a / b rounded to p significant bits.
Add(a, b, p) == Rounded(ExactSum(a, b), p)
Sub(a, b, p) == Rounded(ExactSum(a, Negated(b)), p)
Mul(a, b, p) == Rounded(ExactProduct(a, b), p)
Div(a, b, p) ==
    IF a.mag = <<>> THEN a
    ELSE QuotientAt(a, b,
            IF p + 2 + BitLen(b.mag) > BitLen(a.mag)
            THEN p + 2 + BitLen(b.mag) - BitLen(a.mag) ELSE 0, p)

\* The operations of float64 and of float32.  Both operands are computed
\* before the operation is (v ranges over the one pair of their values).
FMul(a, b) == CHOOSE r \in {Mul(v[1], v[2], MantissaBits) : v \in {<<a, b>>}} : TRUE
FAdd(a, b) == CHOOSE r \in {Add(v[1], v[2], MantissaBits) : v \in {<<a, b>>}} : TRUE
FSub(a, b) == CHOOSE r \in {Sub(v[1], v[2], MantissaBits) : v \in {<<a, b>>}} : TRUE
FDiv(a, b) == CHOOSE r \in {Div(v[1], v[2], MantissaBits) : v \in {<<a, b>>}} : TRUE
FSub32(a, b) == CHOOSE r \in {Sub(v[1], v[2], MantissaBits32) : v \in {<<a, b>>}} : TRUE
FDiv32(a, b) == CHOOSE r \in {Div(v[1], v[2], MantissaBits32) : v \in {<<a, b>>}} : TRUE

ZeroVecFloat == [X |-> Float64(0), Y |-> Float64(0)]
ZeroPolyFloat == [A |-> Float64(0), B |-> Float64(0), C |-> Float64(0)]

\* The body of the loop of FitQuadratic in float64: the ten sums r after
\* the point at tt seconds, with the powers of tt and the position x, y.
AccumulatePowers(r, tt, t2, t3, t4, x, y) ==
    <<FAdd(r[1], tt), FAdd(r[2], t2), FAdd(r[3], t3), FAdd(r[4], t4),
      FAdd(r[5], x), FAdd(r[6], FMul(tt, x)), FAdd(r[7], FMul(t2, x)),
      FAdd(r[8], y), FAdd(r[9], FMul(tt, y)), FAdd(r[10], FMul(t2, y))>>
PowersFromCube(r, tt, t2, t3, x, y) ==
    AccumulatePowers(r, tt, t2, t3, FMul(t3, tt), x, y)
PowersFromSquare(r, tt, t2, x, y) ==
    PowersFromCube(r, tt, t2, FMul(t2, tt), x, y)
PowersOf(r, tt, x, y) == PowersFromSquare(r, tt, FMul(tt, tt), x, y)

\* The ten sums over points[1..i] in float64, timestamps in whole seconds.
RECURSIVE PowerSums(_, _, _)
PowerSums(points, t0, i) ==
    IF i = 0 THEN [k \in 1 .. 10 |-> Float64(0)]
    ELSE PowersOf(PowerSums(points, t0, i - 1), Float64(points[i].Time - t0),
                  Float64(points[i].Vec[1]), Float64(points[i].Vec[2]))

\* determinant(m) in float64.
determinantFloat64(m) ==
    FAdd(FSub(FMul(m[1][1], FSub(FMul(m[2][2], m[3][3]), FMul(m[2][3], m[3][2]))),
              FMul(m[1][2], FSub(FMul(m[2][1], m[3][3]), FMul(m[2][3], m[3][1])))),
         FMul(m[1][3], FSub(FMul(m[2][1], m[3][2]), FMul(m[2][2], m[3][1]))))

\* Polynomial.Eval, Velocity, Acceleration in float64.
EvalFloat64(p, s) == FAdd(FAdd(FMul(FMul(p.A, s), s), FMul(p.B, s)), p.C)
VelocityFloat64(p, s) == FAdd(FMul(FMul(Float64(2), p.A), s), p.B)
AccelerationFloat64(p) == FMul(Float64(2), p.A)

CramerFloat64(A, b, detA) ==
    [C |-> FDiv(determinantFloat64(ReplaceColumn(A, 1, b)), detA),
     B |-> FDiv(determinantFloat64(ReplaceColumn(A, 2, b)), detA),
     A |-> FDiv(determinantFloat64(ReplaceColumn(A, 3, b)), detA)]

\* "if detA == 0" and what follows it.
SolveNormalFloat64(A, bX, bY, detA) ==
    IF IsZero(detA)
    THEN [err |-> "singular matrix", polyX |-> ZeroPolyFloat, polyY |-> ZeroPolyFloat]
    ELSE [err |-> "nil", polyX |-> CramerFloat64(A, bX, detA),
          polyY |-> CramerFloat64(A, bY, detA)]

FitSystemFloat64(eq) ==
    SolveNormalFloat64(eq.A, eq.bX, eq.bY, determinantFloat64(eq.A))

\* FitQuadratic as float64 computes it, timestamps in whole seconds and
\* positions whole numbers that float32 holds.
FitQuadraticFloat64(points) ==
    IF Len(points) < 3
    THEN [err |-> "not enough points", polyX |-> ZeroPolyFloat, polyY |-> ZeroPolyFloat]
    ELSE FitSystemFloat64(
            NormalEquations(Float64(Len(points)),
                            PowerSums(points, points[1].Time, Len(points))))

\* The finite-difference velocity of the fallback in float32.
DifferenceVelocityFloat32(p0, p1, dt, old) ==
    IF dt > 0
    THEN [X |-> FDiv32(FSub32(Float64(p1.Vec[1]), Float64(p0.Vec[1])),
                       Float32(Float64(dt))),
          Y |-> FDiv32(FSub32(Float64(p1.Vec[2]), Float64(p0.Vec[2])),
                       Float32(Float64(dt)))]
    ELSE old

\* "ax := (track.LatestVelocity.X - vx_prev) / float32(avg_dt)" and ay.
AccelerationOver(track, vPrev, avgDt32) ==
    [track EXCEPT !.LatestAcceleration =
        [X |-> FDiv32(FSub32(track.LatestVelocity.X, vPrev.X), avgDt32),
         Y |-> FDiv32(FSub32(track.LatestVelocity.Y, vPrev.Y), avgDt32)]]

\* The acceleration step of the fallback in floats.
DifferenceAccelerationFloat32(track, pm, p0, dt, dtPrev) ==
    IF dtPrev > 0
       /\ Positive(FDiv(FAdd(Float64(dt), Float64(dtPrev)), Float64(2)))
    THEN AccelerationOver(track,
            DifferenceVelocityFloat32(pm, p0, dtPrev, ZeroVecFloat),
            Float32(FDiv(FAdd(Float64(dt), Float64(dtPrev)), Float64(2))))
    ELSE track

AccelerationStepFloat32(track, n) ==
    IF n < 3 THEN track
    ELSE DifferenceAccelerationFloat32(track, track.Points[n - 2],
            track.Points[n - 1],
            track.Points[n].Time - track.Points[n - 1].Time,
            track.Points[n - 1].Time - track.Points[n - 2].Time)

FiniteDifferencesFloat32(track, n) ==
    AccelerationStepFloat32(
        [track EXCEPT !.LatestVelocity =
            DifferenceVelocityFloat32(track.Points[n - 1], track.Points[n],
                track.Points[n].Time - track.Points[n - 1].Time, @)],
        n)

UseFitFloat64(track, n, fit, lastT) ==
    IF fit.err = "nil"
    THEN [track EXCEPT
            !.PolyX = fit.polyX,
            !.PolyY = fit.polyY,
            !.LatestVelocity = [X |-> Float32(VelocityFloat64(fit.polyX, lastT)),
                                Y |-> Float32(VelocityFloat64(fit.polyY, lastT))],
            !.LatestAcceleration = [X |-> Float32(AccelerationFloat64(fit.polyX)),
                                    Y |-> Float32(AccelerationFloat64(fit.polyY))]]
    ELSE FiniteDifferencesFloat32(track, n)

\* Tracker.estimateMotion(track) in floats, n = len(track.Points).
estimateMotionFloat(track, n) ==
    IF n < 2 THEN track
    ELSE IF n >= 4
    THEN UseFitFloat64(track, n, FitQuadraticFloat64(track.Points),
                       Float64(track.Points[n].Time - track.Points[1].Time))
    ELSE FiniteDifferencesFloat32(track, n)

\* ------------------------------------------------ FitQuadratic called directly
\* Callers also build a Track by hand and fit it themselves, as
\* TestExtrapolationTimeCalculation does.  The sample times and the
\* quadratics the samples are taken from:
SampleCounts == 0 .. 4
SampleSeconds == 0 .. 3
SampleTimes == UNION {[1 .. n -> SampleSeconds] : n \in SampleCounts}
Coefficients == {0 - 1, 0, 1}
QuadraticsX == [A : Coefficients, B : Coefficients, C : Coefficients]
QuadraticsY ==
    {[A |-> 1, B |-> 0, C |-> 0], [A |-> 0, B |-> 0 - 2, C |-> 1],
     [A |-> 0 - 1, B |-> 3, C |-> 2]}

\* The value of the quadratic q (integer coefficients) at the integer s.
ValueAt(q, s) == q.A * s * s + q.B * s + q.C

\* The points of the curve (qx, qy) sampled at times, t being the seconds
\* since the first sample.
Samples(times, qx, qy) ==
    [i \in 1 .. Len(times) |->
        Point(times[i], <<ValueAt(qx, times[i] - times[1]),
                          ValueAt(qy, times[i] - times[1])>>)]

\* track := &Track{ID: 1, Points: points}
ManualTrack(points) ==
    [ID |-> 1, Points |-> points,
     LatestVelocity |-> ZeroVec, LatestAcceleration |-> ZeroVec,
     Lost |-> FALSE, PolyX |-> ZeroPoly, PolyY |-> ZeroPoly]

InitManual ==
    /\ \E times \in SampleTimes, qx \in QuadraticsX, qy \in QuadraticsY :
         t = [NewTracker EXCEPT !.heap = <<ManualTrack(Samples(times, qx, qy))>>]
    /\ detected = <<>>
    /\ nextPoints = <<>>
    /\ status = <<>>
    /\ callTimes = <<>>
    /\ err = "none"
    /\ passes = <<>>

\* "track.PolyX = polyX; track.PolyY = polyY" with the result fit of
\* FitQuadratic, whose polynomials are zero when it failed.
StoreFit(fit) ==
    /\ t' = [t EXCEPT !.heap[1].PolyX = fit.polyX, !.heap[1].PolyY = fit.polyY]
    /\ err' = fit.err

\* polyX, polyY, err := FitQuadratic(points) on the hand-built track.
FitManualTrack ==
    /\ err = "none"
    /\ StoreFit(FitQuadratic(heap[1].Points))
    /\ UNCHANGED <<detected, nextPoints, status, callTimes, passes>>

SpecFit == InitManual /\ [][FitManualTrack]_vars

\* ------------------------------------ FitQuadratic on timestamps far apart
\* Hand-built tracks whose frames lie hours apart, in whole seconds, fitted
\* in float64: points that stay at the origin, points on a quadratic sampled
\* at nearby and at distant times, and the parabola of TestFitQuadratic.
GapSeconds == {0, 1, 7403, 9743}
GapTimes == UNION {[1 .. n -> GapSeconds] : n \in SampleCounts}
AtOrigin == [A |-> 0, B |-> 0, C |-> 0]
Parabola == [A |-> 1, B |-> 0, C |-> 0]
Skew == [A |-> 1, B |-> 0 - 2, C |-> 3]
CloseSeconds == {0, 1, 2516, 2517}
CloseTimes == UNION {[1 .. n -> CloseSeconds] : n \in 3 .. 4}
ParabolaPoints == Samples(<<0, 1, 2, 3>>, Parabola, Parabola)
GapSamples ==
    {Samples(times, AtOrigin, AtOrigin) : times \in GapTimes}
    \cup {Samples(c[1], c[2], c[3]) :
            c \in CloseTimes \X {Parabola, Skew} \X {AtOrigin, Skew}}
    \cup {ParabolaPoints}

\* track := &Track{ID: 1, Points: points}, its numbers held as floats.
ManualTrackFloat(points) ==
    [ID |-> 1, Points |-> points,
     LatestVelocity |-> ZeroVecFloat, LatestAcceleration |-> ZeroVecFloat,
     Lost |-> FALSE, PolyX |-> ZeroPolyFloat, PolyY |-> ZeroPolyFloat]

InitGaps ==
    /\ \E points \in GapSamples :
         t = [NewTracker EXCEPT !.heap = <<ManualTrackFloat(points)>>]
    /\ detected = <<>>
    /\ nextPoints = <<>>
    /\ status = <<>>
    /\ callTimes = <<>>
    /\ err = "none"
    /\ passes = <<>>

\* polyX, polyY, err := FitQuadratic(points) on the hand-built track.
FitDistantTrack ==
    /\ err = "none"
    /\ StoreFit(FitQuadraticFloat64(heap[1].Points))
    /\ UNCHANGED <<detected, nextPoints, status, callTimes, passes>>

SpecGaps == InitGaps /\ [][FitDistantTrack]_vars

\* ---------------------------------------- one feature, frames years apart
\* The Tracker following a single feature over frames whose timestamps lie
\* up to 2^30 seconds apart, its motion estimated in floats.
DistantSeconds == {0, 1073741824, 1073741825}

\* NewTrack with its numbers held as floats.
NewTrackFloat(track) ==
    [track EXCEPT !.LatestVelocity = ZeroVecFloat,
                  !.LatestAcceleration = ZeroVecFloat,
                  !.PolyX = ZeroPolyFloat, !.PolyY = ZeroPolyFloat]

\* initializeTracks for the one feature.
initializeTracksFloat(r) ==
    [r EXCEPT !.t.heap = [a \in DOMAIN r.t.heap |-> NewTrackFloat(r.t.heap[a])]]

\* trackStep with estimateMotion in floats.
trackStepFloat(acc, a, tracked, newPoint) ==
    IF acc.heap[a].Lost THEN acc
    ELSE IF tracked
    THEN [heap |-> [acc.heap EXCEPT ![a] =
                      estimateMotionFloat([@ EXCEPT !.Points = Append(@, newPoint)],
                                          Len(@.Points) + 1)],
          surviving |-> Append(acc.surviving, a)]
    ELSE [heap |-> [acc.heap EXCEPT ![a].Lost = TRUE],
          surviving |-> acc.surviving]

\* updateTracks on a Tracker with one track in t.tracks.
updateTracksFloat(tr, np, st, ts) ==
    keepSurvivors(tr,
        trackStepFloat([heap |-> tr.heap, surviving |-> <<>>], tr.tracks[1],
                       st[1] = 1, Point(ts, np[1])))

\* AddImage with the first image, the detector finding one feature.
SeedDistantFeature ==
    /\ alive
    /\ prevImgEmpty
    /\ \E ts \in DistantSeconds :
         /\ ReturnInitialized(
                initializeTracksFloat(initializeTracks(t, <<FeatureAt(1)>>, ts)), ts)
         /\ detected' = <<FeatureAt(1)>>
    /\ UNCHANGED <<nextPoints, status, passes>>

\* AddImage with a later image while the feature is tracked.
FollowDistantFeature ==
    /\ alive
    /\ ~prevImgEmpty
    /\ Len(tracks) = 1
    /\ \E ts \in DistantSeconds, shift \in Shifts, st \in Flags(1) :
         /\ t' = updatePrevPoints(
                    updateTracksFloat(t, Flow(prevPoints, shift), st, ts))
         /\ callTimes' = Append(callTimes, ts)
         /\ err' = "nil"
         /\ nextPoints' = Flow(prevPoints, shift)
         /\ status' = st
    /\ UNCHANGED <<detected, passes>>

NextDistant == SeedDistantFeature \/ FollowDistantFeature

SpecDistant == Init /\ [][NextDistant]_vars

\* ------------------------------------- one feature, seen again years later
\* The Tracker following a single feature through one frame more than
\* MaxFrames, the frames arriving in time order: some a second apart, some
\* 2^30 seconds later.  The motion is estimated in floats.
LateSeconds == {0, 1, 2, 1073741825, 1073741826}

\* The displacement the provider reports in each of these frames.
LateShift == <<1, 2>>

\* AddImage with the first image, the detector finding one feature.
SeedLateFeature ==
    /\ err # "crash"
    /\ prevImgEmpty
    /\ \E ts \in LateSeconds :
         /\ ReturnInitialized(
                initializeTracksFloat(initializeTracks(t, <<FeatureAt(1)>>, ts)), ts)
         /\ detected' = <<FeatureAt(1)>>
    /\ UNCHANGED <<nextPoints, status, passes>>

\* AddImage with a later image, not earlier than the last, while the
\* feature is tracked.
FollowLateFeature ==
    /\ err # "crash"
    /\ Len(callTimes) < MaxFrames + 1
    /\ ~prevImgEmpty
    /\ Len(tracks) = 1
    /\ \E ts \in LateSeconds, st \in Flags(1) :
         /\ ts >= Last(callTimes)
         /\ t' = updatePrevPoints(
                    updateTracksFloat(t, Flow(prevPoints, LateShift), st, ts))
         /\ callTimes' = Append(callTimes, ts)
         /\ err' = "nil"
         /\ nextPoints' = Flow(prevPoints, LateShift)
         /\ status' = st
    /\ UNCHANGED <<detected, passes>>

NextLate == SeedLateFeature \/ FollowLateFeature

SpecLate == Init /\ [][NextLate]_vars

\* ------------------------------------------- one feature, any displacement
\* The Tracker following a single feature that the provider may move
\* anywhere: the feature is detected at the origin and each later frame puts
\* it at one of ScenarioPoints, or loses it.
ScenarioSeed == <<0, 0>>
ScenarioPoints == {<<1, 1>>, <<4, 4>>, <<9, 9>>, <<2, 5>>}
ScenarioSeedTimes == {0, 1}
ScenarioTimes == 0 .. 3

\* AddImage with the first image, the detector finding the one feature.
SeedFeature ==
    /\ alive
    /\ prevImgEmpty
    /\ \E ts \in ScenarioSeedTimes :
         /\ ReturnInitialized(initializeTracks(t, <<ScenarioSeed>>, ts), ts)
         /\ detected' = <<ScenarioSeed>>
    /\ UNCHANGED <<nextPoints, status, passes>>

\* AddImage with a later image, the provider placing the feature at p.
FollowFeature ==
    /\ alive
    /\ ~prevImgEmpty
    /\ Len(prevPoints) = 1
    /\ \E ts \in ScenarioTimes, p \in ScenarioPoints, flag \in {0, 1} :
         /\ Ingest(<<p>>, <<flag>>, ts)
         /\ nextPoints' = <<p>>
         /\ status' = <<flag>>
    /\ UNCHANGED <<detected, passes>>

NextScenario == SeedFeature \/ FollowFeature

SpecScenario == Init /\ [][NextScenario]_vars

\* ------------------------------------------------------ the quality filters
\* The filters take a slice of *Track, here a sequence of heap addresses, and
\* read the positions only.  Positions may have sub-pixel parts: in this
\* section a Vec is a pair of fractions.  Angles are counted in eighths of a
\* turn (pi/4); the tracks below move in steps whose directions are
\* multiples of pi/4, for which math.Atan2 returns the multiples of pi/4.

\* math.MaxFloat64, the largest value a metric or a threshold can take: it
\* compares as greater than every other fraction and equal to itself.
MaxFloat64 == <<1, 0>>

\* p < q and p <= q on float64 values
Less(p, q) == p[1] * q[2] < q[1] * p[2]
LessEq(p, q) == p[1] * q[2] <= q[1] * p[2]

\* math.Abs
AbsOf(p) == <<Abs(p[1]), p[2]>>

\* math.Atan2(y, x) in eighths of a turn, for y/x in {0, 1, -1, infinity}.
Atan2(y, x) ==
    CASE y = Zero /\ x[1] >= 0 -> Zero
      [] y = Zero /\ x[1] < 0 -> Whole(4)
      [] y # Zero /\ x = Zero -> IF RPos(y) THEN Whole(2) ELSE Whole(0 - 2)
      [] y # Zero /\ x # Zero /\ AbsOf(y) = AbsOf(x) ->
           IF RPos(x) THEN (IF RPos(y) THEN Whole(1) ELSE Whole(0 - 1))
           ELSE (IF RPos(y) THEN Whole(3) ELSE Whole(0 - 3))

\* gocv.Point2f{X: q.X - p.X, Y: q.Y - p.Y}
Direction(p, q) == [X |-> RSub(q[1], p[1]), Y |-> RSub(q[2], p[2])]

\* angleBetween(v1, v2): atan2 of the cross product and the dot product.
angleBetween(v1, v2) ==
    Atan2(RSub(RMul(v1.X, v2.Y), RMul(v1.Y, v2.X)),
          RAdd(RMul(v1.X, v2.X), RMul(v1.Y, v2.Y)))

\* The test both loops make on the triple starting at point i: neither
\* direction vector is the zero vector.
ValidSegment(points, i) ==
    /\ Direction(points[i].Vec, points[i + 1].Vec) # ZeroVec
    /\ Direction(points[i + 1].Vec, points[i + 2].Vec) # ZeroVec

\* math.Abs(angle) for the triple starting at point i.
TurnAt(points, i) ==
    AbsOf(angleBetween(Direction(points[i].Vec, points[i + 1].Vec),
                       Direction(points[i + 1].Vec, points[i + 2].Vec)))

\* The loop of calculateSmoothnessMetric over the triples 1..i:
\* totalAngleChange and numSegments.
RECURSIVE TurnSum(_, _)
TurnSum(points, i) ==
    IF i = 0 THEN [totalAngleChange |-> Zero, numSegments |-> 0]
    ELSE IF ValidSegment(points, i)
    THEN [totalAngleChange |->
              RAdd(TurnSum(points, i - 1).totalAngleChange, TurnAt(points, i)),
          numSegments |-> TurnSum(points, i - 1).numSegments + 1]
    ELSE TurnSum(points, i - 1)

\* The result of calculateSmoothnessMetric from the loop's sums.
MeanTurn(sums) ==
    IF sums.numSegments > 0
    THEN RDiv(sums.totalAngleChange, Whole(sums.numSegments))
    ELSE MaxFloat64

\* calculateSmoothnessMetric returning 0.0 when no segment is valid.
calculateSmoothnessMetricLenient(track) ==
    IF Len(track.Points) < 3 THEN Zero
    ELSE IF TurnSum(track.Points, Len(track.Points) - 2).numSegments > 0
    THEN MeanTurn(TurnSum(track.Points, Len(track.Points) - 2))
    ELSE Zero

\* calculateSmoothnessMetric(track)
calculateSmoothnessMetric(track) ==
    IF Len(track.Points) < 3 THEN Zero
    ELSE MeanTurn(TurnSum(track.Points, Len(track.Points) - 2))

\* FilterTracksBySmoothness(tracks, maxAverageAngleChange)
FilterTracksBySmoothness(trks, maxAverageAngleChange) ==
    SelectSeq(trks, LAMBDA a :
        LessEq(calculateSmoothnessMetric(heap[a]), maxAverageAngleChange))

\* isSmooth clearing the flag for a turn of maxAngleChange or more.
isSmoothStrict(points, maxAngleChange) ==
    \A i \in 1 .. Len(points) - 2 :
        ValidSegment(points, i) => Less(TurnAt(points, i), maxAngleChange)

\* isSmooth at the end of the loop of FilterTracksByMaxAngleChange: no valid
\* triple turns by more than maxAngleChange.
isSmooth(points, maxAngleChange) ==
    \A i \in 1 .. Len(points) - 2 :
        ValidSegment(points, i) => ~Less(maxAngleChange, TurnAt(points, i))

\* FilterTracksByMaxAngleChange(tracks, maxAngleChange)
FilterTracksByMaxAngleChange(trks, maxAngleChange) ==
    SelectSeq(trks, LAMBDA a :
        \/ Len(heap[a].Points) < 3
        \/ isSmooth(heap[a].Points, maxAngleChange))

\* int(x) of a float32: the fraction part is cut off, towards zero.
IntOf(p) == IF p[1] >= 0 THEN p[1] \div p[2] ELSE 0 - ((0 - p[1]) \div p[2])

\* a / b on Go ints, b > 0: the quotient is truncated towards zero.
Quo(a, b) == IF a >= 0 THEN a \div b ELSE 0 - ((0 - a) \div b)

\* "Default value" of gridCellSize
DefaultCellSize == 32

\* gridCellSize after the first statement of the density filter.
CellSize(gridCellSize) ==
    IF gridCellSize <= 0 THEN DefaultCellSize ELSE gridCellSize

\* image.Point{X: cellX, Y: cellY} of a track starting at startPoint.
CellOf(startPoint, gridCellSize) ==
    <<Quo(IntOf(startPoint[1]), gridCellSize),
      Quo(IntOf(startPoint[2]), gridCellSize)>>

\* The keys of grid after the binning loop.
GridCells(trks, gridCellSize) ==
    {CellOf(heap[trks[i]].Points[1].Vec, gridCellSize) :
        i \in {j \in DOMAIN trks : Len(heap[trks[j]].Points) # 0}}

\* grid[cell] after the binning loop: the tracks with a point that start in
\* cell, in the order of the input.
TracksInCell(trks, gridCellSize, cell) ==
    SelectSeq(trks, LAMBDA a :
        /\ Len(heap[a].Points) # 0
        /\ CellOf(heap[a].Points[1].Vec, gridCellSize) = cell)

\* The less function given to sort.Slice, on the tracks at a and b.
LessTrack(a, b) ==
    IF Len(heap[a].Points) # Len(heap[b].Points)
    THEN Len(heap[a].Points) > Len(heap[b].Points)
    ELSE Less(calculateSmoothnessMetric(heap[a]),
              calculateSmoothnessMetric(heap[b]))

\* What sort.Slice may leave in tracksInCell: any order of its tracks in
\* which no track is less than one before it (the sort is not stable).
SortedOrders(tracksInCell) ==
    {p \in [DOMAIN tracksInCell -> Range(tracksInCell)] :
        /\ \A i, j \in DOMAIN p : i < j => p[i] # p[j] /\ ~LessTrack(p[j], p[i])}

\* numToKeep for a cell of n tracks.
NumToKeep(n, maxTracksPerCell) ==
    IF n < maxTracksPerCell THEN n ELSE maxTracksPerCell

\* The slices one iteration of the second loop may append to finalTracks.
KeptOfCell(tracksInCell, minTracksPerCell, maxTracksPerCell) ==
    IF Len(tracksInCell) < minTracksPerCell THEN {<<>>}
    ELSE {SubSeq(p, 1, NumToKeep(Len(tracksInCell), maxTracksPerCell)) :
            p \in SortedOrders(tracksInCell)}

\* tracksInCell[:numToKeep] panics in one of the cells (numToKeep < 0).
SliceOutOfRange(trks, gridCellSize, minTracksPerCell, maxTracksPerCell) ==
    \E cell \in GridCells(trks, gridCellSize) :
        /\ Len(TracksInCell(trks, gridCellSize, cell)) >= minTracksPerCell
        /\ NumToKeep(Len(TracksInCell(trks, gridCellSize, cell)),
                     maxTracksPerCell) < 0

\* The values finalTracks may have after the second loop has visited cells,
\* in any order (the order of a map range is not fixed).
RECURSIVE FinalTracks(_, _, _, _, _)
FinalTracks(trks, gridCellSize, minTracksPerCell, maxTracksPerCell, cells) ==
    IF cells = {} THEN {<<>>}
    ELSE UNION {{rest \o kept :
                    rest \in FinalTracks(trks, gridCellSize, minTracksPerCell,
                                         maxTracksPerCell, cells \ {cell}),
                    kept \in KeptOfCell(TracksInCell(trks, gridCellSize, cell),
                                        minTracksPerCell, maxTracksPerCell)} :
                cell \in cells}

\* The density filter past its first statement.
DensityOutcomes(trks, gridCellSize, minTracksPerCell, maxTracksPerCell) ==
    IF SliceOutOfRange(trks, gridCellSize, minTracksPerCell, maxTracksPerCell)
    THEN {[panic |-> TRUE, tracks |-> <<>>]}
    ELSE {[panic |-> FALSE, tracks |-> final] :
            final \in FinalTracks(trks, gridCellSize, minTracksPerCell,
                                  maxTracksPerCell,
                                  GridCells(trks, gridCellSize))}

\* FilterTracksByDensityAndSmoothness(tracks, gridCellSize, minTracksPerCell,
\* maxTracksPerCell): the results the call may have, a panic or a slice.
FilterTracksByDensityAndSmoothness(trks, gridCellSize, minTracksPerCell, maxTracksPerCell) ==
    DensityOutcomes(trks, CellSize(gridCellSize), minTracksPerCell,
                    maxTracksPerCell)

\* -------------------------------------------- the filters on a track batch
\* A caller hands a batch of tracks to one of the filters, and may hand the
\* result of the density filter to it again.  The batch is built by hand:
\* up to MaxBatch of the tracks below, each given by its first position and
\* the steps between its points.
MaxBatch == 3

\* One point per second from start, each step added to the position before.
RECURSIVE Path(_, _)
Path(start, steps) ==
    IF steps = <<>> THEN <<Point(0, start)>>
    ELSE Append(Path(start, SubSeq(steps, 1, Len(steps) - 1)),
                Point(Len(steps),
                      <<RAdd(Last(Path(start, SubSeq(steps, 1, Len(steps) - 1))).Vec[1],
                             Whole(Last(steps)[1])),
                        RAdd(Last(Path(start, SubSeq(steps, 1, Len(steps) - 1))).Vec[2],
                             Whole(Last(steps)[2]))>>))

East == <<1, 0>>
West == <<0 - 1, 0>>
North == <<0, 1>>
NorthEast == <<1, 1>>
Still == <<0, 0>>

\* The point histories a batch is made of: none at all, a single point, a
\* straight run, a stationary feature, turns by a quarter, an eighth and half
\* a turn, a feature that pauses between two moves; some of them start at
\* negative or sub-pixel positions, one starts far from the others.
Histories ==
    << <<>>,
       Path(<<Frac(1, 2), Frac(1, 2)>>, <<>>),
       Path(<<Whole(0), Whole(0)>>, <<East, East>>),
       Path(<<Whole(1), Whole(1)>>, <<Still, Still>>),
       Path(<<Frac(0 - 1, 2), Whole(0)>>, <<East, North>>),
       Path(<<Whole(1), Whole(0)>>, <<East, East, North>>),
       Path(<<Whole(0), Whole(1)>>, <<East, Still, East>>),
       Path(<<Whole(40), Whole(40)>>, <<East, NorthEast>>),
       Path(<<Whole(0 - 1), Whole(0 - 1)>>, <<East, East>>),
       Path(<<Frac(3, 2), Whole(0)>>, <<East, West>>) >>

\* The batches: the histories chosen, in the order of Histories.
Batches ==
    {SelectSeq([i \in DOMAIN Histories |-> i], LAMBDA i : i \in chosen) :
        chosen \in {c \in SUBSET DOMAIN Histories : Cardinality(c) <= MaxBatch}}

\* &Track{ID: id, Points: points}
BatchTrack(id, points) ==
    [ID |-> id, Points |-> points,
     LatestVelocity |-> ZeroVec, LatestAcceleration |-> ZeroVec,
     Lost |-> FALSE, PolyX |-> ZeroPoly, PolyY |-> ZeroPoly]

\* The thresholds (eighths of a turn) and the grid parameters callers pass.
Thresholds == {Whole(0 - 1), Zero, Frac(3, 5), Frac(8, 5), MaxFloat64}
CellSizes == {0 - 1, 0, 2}
MinPerCell == {1, 2, 3}
MaxPerCell == {0 - 1, 0, 1, 2}

InitBatch ==
    /\ \E batch \in Batches :
         t = [NewTracker EXCEPT
                !.heap = [i \in DOMAIN batch |-> BatchTrack(i, Histories[batch[i]])],
                !.tracks = [i \in DOMAIN batch |-> i]]
    /\ detected = <<>>
    /\ nextPoints = <<>>
    /\ status = <<>>
    /\ callTimes = <<>>
    /\ err = "none"
    /\ passes = <<>>

\* A filter call returning output, or panicking.
Pass(policy, args, input, result) ==
    [policy |-> policy, args |-> args, input |-> input,
     output |-> result.tracks, panic |-> result.panic]

\* The result of a filter that cannot fail.
Returned(trks) == [panic |-> FALSE, tracks |-> trks]

\* newcast.FilterTracksBySmoothness(tracks, threshold) on the batch.
CallSmoothnessFilter ==
    /\ passes = <<>>
    /\ \E threshold \in Thresholds :
         passes' = <<Pass("smoothness", <<threshold>>, tracks,
                          Returned(FilterTracksBySmoothness(tracks, threshold)))>>
    /\ UNCHANGED <<t, detected, nextPoints, status, callTimes, err>>

\* newcast.FilterTracksByMaxAngleChange(tracks, threshold) on the batch.
CallMaxAngleFilter ==
    /\ passes = <<>>
    /\ \E threshold \in Thresholds :
         passes' = <<Pass("max_angle", <<threshold>>, tracks,
                          Returned(FilterTracksByMaxAngleChange(tracks, threshold)))>>
    /\ UNCHANGED <<t, detected, nextPoints, status, callTimes, err>>

\* newcast.FilterTracksByDensityAndSmoothness(tracks, ...) on the batch.
CallDensityFilter ==
    /\ passes = <<>>
    /\ \E size \in CellSizes, least \in MinPerCell, most \in MaxPerCell :
         \E result \in FilterTracksByDensityAndSmoothness(tracks, size, least, most) :
             passes' = <<Pass("density", <<size, least, most>>, tracks, result)>>
    /\ UNCHANGED <<t, detected, nextPoints, status, callTimes, err>>

\* The density filter called on its own result with the same parameters.
CallDensityFilterAgain ==
    /\ Len(passes) = 1
    /\ passes[1].policy = "density"
    /\ ~passes[1].panic
    /\ \E result \in FilterTracksByDensityAndSmoothness(
                        passes[1].output, passes[1].args[1],
                        passes[1].args[2], passes[1].args[3]) :
         passes' = Append(passes, Pass("density", passes[1].args,
                                       passes[1].output, result))
    /\ UNCHANGED <<t, detected, nextPoints, status, callTimes, err>>

\* The smoothness filter called on the batch the max-angle filter was given,
\* with the same threshold.
CallSmoothnessFilterToo ==
    /\ Len(passes) = 1
    /\ passes[1].policy = "max_angle"
    /\ passes' = Append(passes,
                        Pass("smoothness", passes[1].args, passes[1].input,
                             Returned(FilterTracksBySmoothness(passes[1].input,
                                                               passes[1].args[1]))))
    /\ UNCHANGED <<t, detected, nextPoints, status, callTimes, err>>

NextFilter ==
    \/ CallSmoothnessFilter
    \/ CallMaxAngleFilter
    \/ CallDensityFilter
    \/ CallDensityFilterAgain
    \/ CallSmoothnessFilterToo

SpecFilter == InitBatch /\ [][NextFilter]_vars

\* ------------------------------------------------------------ properties
Increasing(times) == \A i \in 1 .. Len(times) - 1 : times[i] < times[i + 1]
IsPrefix(p, q) == Len(p) <= Len(q) /\ \A i \in 1 .. Len(p) : p[i] = q[i]
TimesOf(points) == [i \in 1 .. Len(points) |-> points[i].Time]
Addresses == DOMAIN heap
\* A step of AddImage that ingested a frame and returned nil.
Ingested == ~prevImgEmpty /\ callTimes' # callTimes

\* The point an ingest step appends to the track at row i.
NewPointAt(i) == [Time |-> Last(callTimes'), Vec |-> nextPoints'[i]]
\* The track with one more point, before estimateMotion has run on it.
WithPoint(track, point) == [track EXCEPT !.Points = Append(@, point)]
\* The distinct timestamps among points.
DistinctTimes(points) == {points[i].Time : i \in DOMAIN points}

\* The Polynomial with the whole coefficients of q.
PolyOf(q) == [A |-> Whole(q.A), B |-> Whole(q.B), C |-> Whole(q.C)]

\* C1: a Track that is lost stays lost, is in no later result of GetTracks,
\* and its points never grow again, whatever calls follow.
LostTracksAreFrozen ==
    [][\A a \in Addresses :
         /\ heap'[a].Lost => a \notin Range(GetTracks')
         /\ heap[a].Lost =>
              /\ heap'[a].Lost
              /\ Len(heap'[a].Points) <= Len(heap[a].Points)]_vars

\* A track was lost and at least two frames were ingested since it got its
\* last point (the one that lost it, and a later one).
LostThenIngested ==
    \E a, b \in Addresses :
        /\ heap[a].Lost
        /\ ~heap[b].Lost
        /\ Len(heap[b].Points) >= Len(heap[a].Points) + 2

\* C2: the ids of all Tracks ever created are pairwise distinct and below
\* nextTrackID, so none is handed out again; nextTrackID never decreases.
IdsNeverReused ==
    [][/\ \A a, b \in DOMAIN heap' : a # b => heap'[a].ID # heap'[b].ID
       /\ \A a \in DOMAIN heap' : heap'[a].ID < nextTrackID'
       /\ nextTrackID' >= nextTrackID]_vars

\* Two tracks exist, one of them lost, and frames were ingested after that.
TwoIdsOneLost ==
    /\ Len(heap) >= 2
    /\ \E a \in Addresses : heap[a].Lost
    /\ Len(callTimes) >= 3

\* C3: an ingest appends exactly {timestamp, nextPoints[i]} to the i-th
\* active track when status[i] is tracked, and otherwise adds nothing and
\* marks it lost; no track loses or reorders points.
IngestAppendsOrLoses ==
    [][Ingested =>
         /\ \A i \in 1 .. Len(GetTracks) :
              LET a == GetTracks[i]
              IN  IF status'[i] = 1
                  THEN /\ heap'[a].Points =
                            Append(heap[a].Points,
                                   [Time |-> Last(callTimes'), Vec |-> nextPoints'[i]])
                       /\ ~heap'[a].Lost
                  ELSE /\ heap'[a].Points = heap[a].Points
                       /\ heap'[a].Lost
         /\ DOMAIN heap' = DOMAIN heap
         /\ \A a \in Addresses : IsPrefix(heap[a].Points, heap'[a].Points)]_vars

\* An ingest has just lost the first of two tracks and extended the second.
IngestedMixedFlags ==
    /\ status = <<0, 1>>
    /\ Len(callTimes) >= 2
    /\ \E a \in Addresses : ~heap[a].Lost /\ Len(heap[a].Points) = Len(callTimes)

TimestampsIncreasing ==
    \A a \in Addresses : Increasing(TimesOf(heap[a].Points))

\* C5 as amended: every Track's timestamps are the timestamps the caller
\* passed to the successful AddImage calls, in call order, so they increase
\* strictly when the caller's did.
TimestampsAreCallTimes ==
    /\ \A a \in Addresses : IsPrefix(TimesOf(heap[a].Points), callTimes)
    /\ Increasing(callTimes) =>
         \A a \in Addresses : Increasing(TimesOf(heap[a].Points))

\* A track holds a point that is not later than the point before it.
TimestampNotLater ==
    \E a \in Addresses : \E i \in 1 .. Len(heap[a].Points) - 1 :
        heap[a].Points[i + 1].Time <= heap[a].Points[i].Time

\* C6: an ingest whose arrays do not have one row per active track surfaces
\* an error to the caller and updates nothing.
MismatchSurfaced ==
    [][(/\ ~prevImgEmpty
        /\ callTimes' # callTimes \/ err' = "crash"
        /\ Len(status') # Len(tracks))
       => /\ err' \notin {"nil", "crash"}
          /\ t' = t]_vars

\* C7: prevPoints has one row per active track, in the order of the active
\* tracks, and row i is the latest point of the i-th active track.
PrevPointsAligned ==
    /\ Len(prevPoints) = Len(GetTracks)
    /\ \A i \in 1 .. Len(GetTracks) :
         prevPoints[i] = Last(heap[GetTracks[i]].Points).Vec

\* A track moved up in t.tracks when the one before it was lost, has moved
\* since, and was ingested again at its new row.
SurvivorMovedUp ==
    \E i \in 1 .. Len(tracks) :
        /\ tracks[i] # i
        /\ heap[tracks[i]].Lost = FALSE
        /\ Len(heap[tracks[i]].Points) >= 3
        /\ Last(heap[tracks[i]].Points).Vec # heap[tracks[i]].Points[1].Vec

\* C8: GetTracks returns exactly the Tracks that are not lost, each once,
\* in ascending id order.
GetTracksActiveAscending ==
    /\ Range(GetTracks) = {a \in Addresses : ~heap[a].Lost}
    /\ \A i, j \in 1 .. Len(GetTracks) :
         i < j => heap[GetTracks[i]].ID < heap[GetTracks[j]].ID

\* Two tracks are active after frames were ingested.
TwoActiveAfterIngest ==
    /\ Len(GetTracks) >= 2
    /\ \A i \in 1 .. Len(GetTracks) : Len(heap[GetTracks[i]].Points) >= 2

\* C9: initializeTracks on N > 0 detected positions creates exactly N
\* Tracks, in array order, with ids 0..N-1, one point {timestamp, position}
\* each, not lost, zero polynomials, zero velocity and acceleration.
InitializeSeedsTracks ==
    [][(prevImgEmpty /\ detected' # <<>>) =>
         /\ err' = "nil"
         /\ heap = <<>>
         /\ Len(heap') = Len(detected')
         /\ tracks' = [i \in 1 .. Len(detected') |-> i]
         /\ nextTrackID' = Len(detected')
         /\ \A i \in 1 .. Len(detected') :
              heap'[i] = [ID |-> i - 1,
                          Points |-> <<[Time |-> Last(callTimes'),
                                        Vec |-> detected'[i]]>>,
                          LatestVelocity |-> ZeroVec,
                          LatestAcceleration |-> ZeroVec,
                          Lost |-> FALSE,
                          PolyX |-> ZeroPoly, PolyY |-> ZeroPoly]]_vars

\* The first image has just been accepted with two features.
JustInitialized ==
    /\ Len(callTimes) = 1
    /\ Len(detected) = 2
    /\ err = "nil"

\* C10: initializeTracks on an empty feature array fails with the
\* no-features error and changes nothing; the Tracker stays uninitialized.
NoFeaturesChangesNothing ==
    [][(/\ prevImgEmpty
        /\ detected' = <<>>
        /\ err' # "input image is empty")
       => /\ err' = "no features found in the first image"
          /\ t' = t
          /\ prevImgEmpty'
          /\ callTimes' = callTimes]_vars

\* The first image had no features; the Tracker is still uninitialized.
NoFeaturesReturned ==
    /\ err = "no features found in the first image"
    /\ prevImgEmpty
    /\ heap = <<>>
    /\ nextTrackID = 0

\* C11: AddImage on an initialized Tracker without active tracks returns
\* nil and leaves the Tracker as it was: no Track is created, none is
\* marked lost, nextTrackID and every Track stay unchanged.
IngestOnEmptyIsNoOp ==
    [][(/\ ~prevImgEmpty
        /\ Len(GetTracks) = 0
        /\ err' # "input image is empty")
       => /\ err' = "nil"
          /\ callTimes' # callTimes
          /\ t' = t]_vars

\* A frame has just been ingested by a Tracker whose tracks were all lost.
IngestedOnEmpty ==
    /\ ~prevImgEmpty
    /\ err = "nil"
    /\ status = <<>>
    /\ Len(callTimes) >= 3
    /\ \A a \in Addresses : heap[a].Lost

\* C12: when FitQuadratic fails on a track that an ingest brought to four
\* points or more, AddImage still returns nil, the point is appended and the
\* track is what the finite-difference fallback makes of it.
FitFailureStaysInside ==
    [][Ingested =>
         /\ err' = "nil"
         /\ \A i \in 1 .. Len(GetTracks) :
              (/\ status'[i] = 1
               /\ Len(heap[GetTracks[i]].Points) >= 3
               /\ FitQuadratic(Append(heap[GetTracks[i]].Points,
                                      NewPointAt(i))).err # "nil")
              => /\ heap'[GetTracks[i]].Points =
                      Append(heap[GetTracks[i]].Points, NewPointAt(i))
                 /\ heap'[GetTracks[i]] =
                      FiniteDifferences(
                          WithPoint(heap[GetTracks[i]], NewPointAt(i)),
                          Len(heap[GetTracks[i]].Points) + 1)]_vars

\* A track of four points whose fit is singular got its velocity from the
\* fallback.
FallbackAfterSingularFit ==
    \E a \in Addresses :
        /\ ~heap[a].Lost
        /\ Len(heap[a].Points) >= 4
        /\ FitQuadratic(heap[a].Points).err = "singular matrix"
        /\ heap[a].LatestVelocity # ZeroVec
        /\ err = "nil"

\* C13: FitQuadratic fails with "not enough points" exactly when it gets
\* fewer than 3 points, otherwise with "singular matrix" exactly when the
\* points have fewer than 3 distinct timestamps, and otherwise succeeds.
\* (Stated of the error the call has returned for the points of the
\* hand-built track.)
FitClassifiesInput ==
    err # "none" =>
        err = IF Len(heap[1].Points) < 3 THEN "not enough points"
              ELSE IF Cardinality(DistinctTimes(heap[1].Points)) < 3
                   THEN "singular matrix"
                   ELSE "nil"

\* f is within 0.01 of the whole number n: d = f - n, computed without
\* rounding, has 100 |d| <= 1.
Hundredth(d) ==
    \/ d.mag = <<>>
    \/ /\ d.exp < 0
       /\ NatCmp(NatMul(d.mag, NatOf(100)), PowerOfTwo(0 - d.exp)) <= 0
WithinHundredth(f, n) == Hundredth(ExactSum(f, Float64(0 - n)))
Recovered(poly, q) ==
    /\ WithinHundredth(poly.A, q.A)
    /\ WithinHundredth(poly.B, q.B)
    /\ WithinHundredth(poly.C, q.C)

\* C14: for points lying exactly on x(t) = a t^2 + b t + c and
\* y(t) = a' t^2 + b' t + c' (t in seconds since the first point), sampled
\* at 3 or more distinct times, FitQuadratic succeeds and returns (a, b, c)
\* and (a', b', c') within 0.01; for x = y = t^2 at t = 0, 1, 2, 3 that is
\* a = 1, b = 0, c = 0 and Eval(4) = 16, within 0.01.
QuadraticRecovered ==
    (err # "none" /\ Cardinality(DistinctTimes(heap[1].Points)) >= 3) =>
        /\ err = "nil"
        /\ \A qx, qy \in {AtOrigin, Parabola, Skew} :
             heap[1].Points = Samples(TimesOf(heap[1].Points), qx, qy) =>
                 /\ Recovered(heap[1].PolyX, qx)
                 /\ Recovered(heap[1].PolyY, qy)
        /\ heap[1].Points = ParabolaPoints =>
             /\ WithinHundredth(EvalFloat64(heap[1].PolyX, Float64(4)), 16)
             /\ WithinHundredth(EvalFloat64(heap[1].PolyY, Float64(4)), 16)

\* The seconds from the first to the last of points.
SpanOf(points) == Last(points).Time - points[1].Time
\* 2 a s + b for the fractions a, b and the whole number s.
SlopeAt(a, b, s) == Frac(2 * a[1] * s * b[2] + b[1] * a[2], a[2] * b[2])
\* The track is what a successful fit over its points makes of it.
FollowsFit(track, fit) ==
    /\ track.PolyX = fit.polyX
    /\ track.PolyY = fit.polyY
    /\ track.LatestVelocity =
         [X |-> SlopeAt(fit.polyX.A, fit.polyX.B, SpanOf(track.Points)),
          Y |-> SlopeAt(fit.polyY.A, fit.polyY.B, SpanOf(track.Points))]
    /\ track.LatestAcceleration =
         [X |-> Frac(2 * fit.polyX.A[1], fit.polyX.A[2]),
          Y |-> Frac(2 * fit.polyY.A[1], fit.polyY.A[2])]

\* C15: when an ingest brings a track to four points or more and
\* FitQuadratic succeeds on all its points, the track's polynomials are the
\* fit, its velocity is (2 a_x t_last + b_x, 2 a_y t_last + b_y) with t_last
\* the seconds from the first to the last point, and its acceleration is
\* (2 a_x, 2 a_y), not what finite differences would give.
FitSetsMotion ==
    [][Ingested =>
         \A i \in 1 .. Len(GetTracks) :
             (status'[i] = 1 /\ Len(heap[GetTracks[i]].Points) >= 3) =>
                 \A fit \in {FitQuadratic(Append(heap[GetTracks[i]].Points,
                                                 NewPointAt(i)))} :
                     fit.err = "nil" =>
                         /\ heap'[GetTracks[i]].Points =
                              Append(heap[GetTracks[i]].Points, NewPointAt(i))
                         /\ FollowsFit(heap'[GetTracks[i]], fit)]_vars

\* A track of four points carries a fit with a quadratic term, and finite
\* differences would have given it another velocity.
FittedWithCurvature ==
    \E a \in Addresses :
        /\ ~heap[a].Lost
        /\ Len(heap[a].Points) >= 4
        /\ FitQuadratic(heap[a].Points).err = "nil"
        /\ heap[a].PolyX.A # Zero
        /\ SpanOf(heap[a].Points) > 0
        /\ heap[a].LatestVelocity #
             FiniteDifferences(heap[a], Len(heap[a].Points)).LatestVelocity

\* The velocity finite differences give between the points p0 and p1.
SlopeBetween(p0, p1) ==
    [X |-> Frac(p1.Vec[1] - p0.Vec[1], p1.Time - p0.Time),
     Y |-> Frac(p1.Vec[2] - p0.Vec[2], p1.Time - p0.Time)]
\* (v1 - v0) / ((dt + dtPrev) / 2) on one axis, for the points' coordinates
\* xm, x0, x1 in time order.
SecondDifference(xm, x0, x1, dtPrev, dt) ==
    Frac(2 * ((x1 - x0) * dtPrev - (x0 - xm) * dt), dt * dtPrev * (dt + dtPrev))
\* The fallback's velocity and acceleration on the points ps of track new,
\* old being the track before the call.
FollowsDifferences(old, new, ps, n) ==
    ps[n].Time > ps[n - 1].Time =>
        /\ new.LatestVelocity = SlopeBetween(ps[n - 1], ps[n])
        /\ (n >= 3 /\ ps[n - 1].Time > ps[n - 2].Time) =>
              new.LatestAcceleration =
                  [X |-> SecondDifference(ps[n - 2].Vec[1], ps[n - 1].Vec[1],
                            ps[n].Vec[1], ps[n - 1].Time - ps[n - 2].Time,
                            ps[n].Time - ps[n - 1].Time),
                   Y |-> SecondDifference(ps[n - 2].Vec[2], ps[n - 1].Vec[2],
                            ps[n].Vec[2], ps[n - 1].Time - ps[n - 2].Time,
                            ps[n].Time - ps[n - 1].Time)]
        /\ n = 2 => new.LatestAcceleration = old.LatestAcceleration

\* C16: when an ingest leaves a track with fewer than four points or with a
\* failing fit, and its last two points are dt > 0 apart, its velocity is
\* (p_last - p_prev) / dt; if a third-from-last point lies dtPrev > 0 before
\* the second-from-last, its acceleration is (v_last - v_prev) /
\* ((dt + dtPrev) / 2); with exactly two points the acceleration is kept.
FallbackDifferences ==
    [][Ingested =>
         \A i \in 1 .. Len(GetTracks) :
             (/\ status'[i] = 1
              /\ \/ Len(heap[GetTracks[i]].Points) < 3
                 \/ FitQuadratic(Append(heap[GetTracks[i]].Points,
                                        NewPointAt(i))).err # "nil")
             => FollowsDifferences(heap[GetTracks[i]], heap'[GetTracks[i]],
                    Append(heap[GetTracks[i]].Points, NewPointAt(i)),
                    Len(heap[GetTracks[i]].Points) + 1)]_vars

\* A track of three points at increasing times got a non-zero acceleration
\* from the fallback.
FallbackAccelerated ==
    \E a \in Addresses :
        /\ Len(heap[a].Points) = 3
        /\ Increasing(TimesOf(heap[a].Points))
        /\ heap[a].LatestAcceleration # ZeroVec

\* C18: the track seeded at (0,0) at 0 s that ingests (1,1) at 1 s, (4,4) at
\* 2 s and (9,9) at 3 s has zero polynomials after the first and the second
\* ingest and, after the third, fitted polynomials with a = 1 on both axes;
\* extrapolating one future point then gives (16,16).
ScenarioFitsAtFourPoints ==
    \A n \in 2 .. 4 :
        (Len(heap) >= 1 /\ heap[1].Points = SubSeq(ParabolaPoints, 1, n)) =>
            IF n < 4
            THEN heap[1].PolyX = ZeroPoly /\ heap[1].PolyY = ZeroPoly
            ELSE /\ heap[1].PolyX.A = Whole(1)
                 /\ heap[1].PolyY.A = Whole(1)
                 /\ Extrapolate(heap[1], 1) = << <<Whole(16), Whole(16)>> >>

\* The three ingests of the scenario have been made.
ScenarioPlayed ==
    /\ Len(heap) = 1
    /\ heap[1].Points = ParabolaPoints
    /\ ~heap[1].Lost
    /\ callTimes = <<0, 1, 2, 3>>

\* t_last + j * avg_dt with avg_dt = (t_last - t_first) / (n - 1), in seconds
\* since the first of the n points.
FutureSecond(points, j) ==
    Frac((Len(points) - 1 + j) * SpanOf(points), Len(points) - 1)

\* C19: extrapolating k > 0 future points of a track with two points or more
\* and a fitted polynomial yields exactly k positions, the j-th being
\* (PolyX.Eval(t_last + j avg_dt), PolyY.Eval(t_last + j avg_dt)) with
\* avg_dt = (t_last - t_first) / (n - 1).
ExtrapolateYieldsPositions ==
    (err = "nil" /\ Len(heap[1].Points) >= 2) =>
        \A k \in 1 .. MaxFuturePoints :
            Extrapolate(heap[1], k) =
                [j \in 1 .. k |->
                    <<Eval(heap[1].PolyX, FutureSecond(heap[1].Points, j)),
                      Eval(heap[1].PolyY, FutureSecond(heap[1].Points, j))>>]

\* FitQuadratic has succeeded in one of the estimateMotion calls made on the
\* track, each of which saw a prefix of its points.
Fitted(track) ==
    \E n \in 4 .. Len(track.Points) :
        FitQuadratic(SubSeq(track.Points, 1, n)).err = "nil"

\* C20: for every Track reached through AddImage, PolyX.A is non-zero if and
\* only if FitQuadratic has succeeded for that Track, so extrapolating
\* k > 0 points yields nothing exactly for Tracks with fewer than 2 points
\* or never fitted.
GuardMeansFitted ==
    \A a \in Addresses :
        /\ heap[a].PolyX.A # Zero <=> Fitted(heap[a])
        /\ \A k \in 1 .. MaxFuturePoints :
             Extrapolate(heap[a], k) = <<>>
                 <=> (Len(heap[a].Points) < 2 \/ ~Fitted(heap[a]))

\* C17: whenever an ingest ends in the finite-difference fallback with the
\* last two points dt <= 0 apart, AddImage returns nil (nothing is divided
\* by zero, no error raised) and the track's velocity and acceleration are
\* exactly what they were before the call.
ZeroTimeDeltaKeepsMotion ==
    [][Ingested =>
         \A i \in 1 .. Len(GetTracks) :
             (/\ status'[i] = 1
              /\ NewPointAt(i).Time <= Last(heap[GetTracks[i]].Points).Time
              /\ \/ Len(heap[GetTracks[i]].Points) < 3
                 \/ FitQuadraticFloat64(Append(heap[GetTracks[i]].Points,
                                               NewPointAt(i))).err # "nil")
             => /\ err' = "nil"
                /\ heap'[GetTracks[i]].LatestVelocity =
                     heap[GetTracks[i]].LatestVelocity
                /\ heap'[GetTracks[i]].LatestAcceleration =
                     heap[GetTracks[i]].LatestAcceleration]_vars

\* C21: for every batch of tracks and every (cell size, min per cell, max
\* per cell), the density filter applied to its own output with the same
\* parameters returns the same set of tracks: F(F(T)) = F(T).
DensityFilterIdempotent ==
    (Len(passes) = 2 /\ passes[2].policy = "density")
        => /\ ~passes[2].panic
           /\ Range(passes[2].output) = Range(passes[1].output)

\* The track at k ranks at least as high as the track at d: it has more
\* points, or as many and a smoothness metric that is not higher.
RanksAtLeast(k, d) ==
    \/ Len(heap[k].Points) > Len(heap[d].Points)
    \/ /\ Len(heap[k].Points) = Len(heap[d].Points)
       /\ LessEq(calculateSmoothnessMetric(heap[k]),
                 calculateSmoothnessMetric(heap[d]))

\* The smaller of two ints.
Min(a, b) == IF a < b THEN a ELSE b

\* Of the tracks inCell of one grid cell, the output of the call holds
\* none when the cell is sparse, and otherwise min(most, cell size) tracks
\* that rank at least as high as the others of the cell.
CellRanked(inCell, least, most, output) ==
    IF Cardinality(inCell) < least THEN inCell \cap output = {}
    ELSE /\ Cardinality(inCell \cap output) = Min(most, Cardinality(inCell))
         /\ \A k \in inCell \cap output : \A d \in inCell \ output :
                RanksAtLeast(k, d)

\* C22: the density filter discards every grid cell holding fewer than
\* min_per_cell tracks, and from every other cell keeps exactly
\* min(max_per_cell, cell size) tracks, every kept track ranking at least as
\* high as every dropped track of its cell (more points first, then lower
\* smoothness metric).
DensityKeepsTopOfDenseCells ==
    \A i \in DOMAIN passes :
        passes[i].policy = "density" =>
            /\ ~passes[i].panic
            /\ \A cell \in GridCells(passes[i].input, CellSize(passes[i].args[1])) :
                 CellRanked(Range(TracksInCell(passes[i].input,
                                               CellSize(passes[i].args[1]), cell)),
                            passes[i].args[2], passes[i].args[3],
                            Range(passes[i].output))

\* floor(x / size) for the fraction x and the int size > 0.
FloorOf(x, size) == x[1] \div (x[2] * size)

\* (floor(x0 / size), floor(y0 / size)) for a track starting at startPoint.
FloorCell(startPoint, size) ==
    <<FloorOf(startPoint[1], size), FloorOf(startPoint[2], size)>>

\* The tracks of a filter's input that have a point.
WithPoints(trks) == {a \in Range(trks) : Len(heap[a].Points) # 0}

\* C23: the density filter assigns each track to the grid cell
\* (floor(x0 / cell_size), floor(y0 / cell_size)) of its first point, for
\* every coordinate value including negative and fractional ones; two
\* tracks share a cell exactly when these keys are equal.
CellIsFloorOfFirstPoint ==
    \A i \in DOMAIN passes :
        passes[i].policy = "density" =>
            /\ \A a \in WithPoints(passes[i].input) :
                 CellOf(heap[a].Points[1].Vec, CellSize(passes[i].args[1]))
                     = FloorCell(heap[a].Points[1].Vec, CellSize(passes[i].args[1]))
            /\ \A a, b \in WithPoints(passes[i].input) :
                 (\E cell \in GridCells(passes[i].input, CellSize(passes[i].args[1])) :
                     {a, b} \subseteq Range(TracksInCell(passes[i].input,
                                              CellSize(passes[i].args[1]), cell)))
                 <=> FloorCell(heap[a].Points[1].Vec, CellSize(passes[i].args[1]))
                       = FloorCell(heap[b].Points[1].Vec, CellSize(passes[i].args[1]))

\* The consecutive triples of points, named by their first index, whose two
\* direction vectors are both non-zero.
ValidTriples(points) ==
    {i \in 1 .. Len(points) - 2 :
        points[i].Vec # points[i + 1].Vec /\ points[i + 1].Vec # points[i + 2].Vec}

\* The sum of the absolute turning angles of the valid triples up to n.
RECURSIVE TurnsUpTo(_, _)
TurnsUpTo(points, n) ==
    IF n = 0 THEN Zero
    ELSE IF n \in ValidTriples(points)
    THEN RAdd(TurnsUpTo(points, n - 1), TurnAt(points, n))
    ELSE TurnsUpTo(points, n - 1)

\* The smoothness metric as the spec defines it.
MeanAbsoluteTurn(points) ==
    IF Len(points) < 3 THEN Zero
    ELSE IF ValidTriples(points) = {} THEN MaxFloat64
    ELSE RDiv(TurnsUpTo(points, Len(points) - 2),
              Whole(Cardinality(ValidTriples(points))))

\* A feature that never moved.
Stationary(points) == \A i \in DOMAIN points : points[i].Vec = points[1].Vec

\* The smoothness filter returns exactly the input tracks whose mean
\* absolute turning angle is at most the threshold, in their order.
SmoothnessKeepsByMetric(pass) ==
    pass.output =
        SelectSeq(pass.input, LAMBDA a :
            LessEq(MeanAbsoluteTurn(heap[a].Points), pass.args[1]))

TurnsSharply(points, threshold) ==
    \E i \in ValidTriples(points) : Less(threshold, TurnAt(points, i))

\* C25: the max-angle filter rejects a track exactly when at least one of
\* its turning angles (over the valid triples) exceeds max_angle in absolute
\* value; tracks with fewer than three points pass for every max_angle,
\* negative ones included.
MaxAngleRejectsSharpTurns ==
    \A i \in DOMAIN passes :
        passes[i].policy = "max_angle" =>
            /\ passes[i].output =
                 SelectSeq(passes[i].input, LAMBDA a :
                     ~TurnsSharply(heap[a].Points, passes[i].args[1]))
            /\ \A a \in Range(passes[i].input) :
                 Len(heap[a].Points) < 3 => a \in Range(passes[i].output)

\* The max-angle filter, given a negative threshold, has kept a track of
\* fewer than three points and rejected a straight one.
ShortTrackPassedNegativeAngle ==
    /\ Len(passes) = 1
    /\ passes[1].policy = "max_angle"
    /\ Less(passes[1].args[1], Zero)
    /\ \E a, b \in Range(passes[1].input) :
         /\ Len(heap[a].Points) \in 1 .. 2
         /\ a \in Range(passes[1].output)
         /\ ValidTriples(heap[b].Points) # {}
         /\ MeanAbsoluteTurn(heap[b].Points) = Zero
         /\ b \notin Range(passes[1].output)

\* C26: the max-angle filter is stricter than the smoothness filter: for
\* every batch and every threshold >= 0, every track the max-angle filter
\* keeps is kept by the smoothness filter too.
MaxAngleStricterThanSmoothness ==
    (/\ Len(passes) = 2
     /\ passes[1].policy = "max_angle"
     /\ passes[2].policy = "smoothness"
     /\ LessEq(Zero, passes[1].args[1]))
        => Range(passes[1].output) \subseteq Range(passes[2].output)

\* No element occurs twice in the sequence.
DuplicateFree(seq) == \A i, j \in DOMAIN seq : i # j => seq[i] # seq[j]

\* C30: the density filter completes without failure and returns a
\* duplicate-free subset of its input for every parameter combination:
\* with cell_size <= 0 (a default cell size is used), with tracks that have
\* no points (they are skipped) and with max_per_cell <= 0 (no track is kept).
DensityFilterTotal ==
    \A i \in DOMAIN passes :
        passes[i].policy = "density" =>
            /\ ~passes[i].panic
            /\ DuplicateFree(passes[i].output)
            /\ Range(passes[i].output) \subseteq WithPoints(passes[i].input)
            /\ passes[i].args[3] <= 0 => passes[i].output = <<>>

\* C27: after k successful AddImage calls on one Tracker every active track
\* has exactly k points, and all active tracks carry the same sequence of
\* timestamps (those of the k calls); no live track has an empty points
\* sequence.
ActiveTracksShareHistory ==
    \A a \in Range(GetTracks) :
        /\ Len(heap[a].Points) = Len(callTimes)
        /\ TimesOf(heap[a].Points) = callTimes
        /\ heap[a].Points # <<>>

\* Two tracks are active after three successful calls or more, the last of
\* them with a timestamp that is not later than the one before.
TwoActiveAfterThreeCalls ==
    /\ Len(GetTracks) = 2
    /\ Len(callTimes) >= 3
    /\ callTimes[Len(callTimes)] <= callTimes[Len(callTimes) - 1]

\* C28: tracks are created only by the first successful AddImage: after it
\* no AddImage creates a Track or changes nextTrackID, the number of active
\* tracks never increases from one call to the next, and once no track is
\* active none is in any later call.
TracksCreatedOnlyOnce ==
    [][callTimes # <<>> =>
         /\ DOMAIN heap' = DOMAIN heap
         /\ nextTrackID' = nextTrackID
         /\ Len(GetTracks') <= Len(GetTracks)
         /\ GetTracks = <<>> => GetTracks' = <<>>]_vars

\* Every track has been lost and two more frames were ingested after that.
IngestedAfterAllLost ==
    /\ GetTracks = <<>>
    /\ Len(heap) = 2
    /\ \A a \in Addresses : Len(callTimes) >= Len(heap[a].Points) + 3

\* C29: fit success is monotone per track: once FitQuadratic has succeeded
\* for a track during an ingest, it succeeds in every later ingest that
\* extends the track, whatever timestamps the later points carry, so the
\* track never goes back to the finite-difference fallback.
FitSuccessIsMonotone ==
    [][Ingested =>
         \A i \in 1 .. Len(GetTracks) :
             (/\ status'[i] = 1
              /\ Len(heap[GetTracks[i]].Points) >= 4
              /\ FitQuadraticFloat64(heap[GetTracks[i]].Points).err = "nil")
             => FitQuadraticFloat64(heap'[GetTracks[i]].Points).err = "nil"]_vars

====
